---- MODULE Spec2Model ----
(***************************************************************************)
(* Model of walletbot.py: the scheduled-payment engine (schedule parser,   *)
(* next-execution calculator, due-payment tick, cancellation), the fee     *)
(* estimator, the balance pre-flight of every request flow, and the batch  *)
(* dispatcher with the single-payment and batch request flows.             *)
(*                                                                         *)
(* Time is counted in half days since Monday 2024-01-01 00:00, so noon is  *)
(* an odd instant and midnight an even one.  Money is counted in units of  *)
(* 10^8 wei so that 100 gwei x 21000 gas stays inside TLC's integers.      *)
(***************************************************************************)
EXTENDS Integers, Sequences, FiniteSets, TLC

VARIABLES
    now,        \* the wall clock read by datetime.now()
    txCount,    \* w3.eth.get_transaction_count(address), per address
    wallets,    \* wallets_collection: user id -> address, or NoWallet
    payments,   \* scheduled_payments_collection, in insertion order (_id = index)
    cancelled,  \* history: ids on which the cancel callback has acted
    tick,       \* the running invocations of process_scheduled_payments
    invCount,   \* history: number of tick invocations that found due records
    sent,       \* history: every transaction accepted by send_raw_transaction
    outbox,     \* pending_notifications_collection: handle -> list of entries
    userData,   \* context.user_data of the sending user
    batch,      \* the running invocation of process_batch_transaction
    reply,      \* the last answer a request handler gave to the user
    feeMarket,  \* what the network reports to calculate_optimal_gas
    balance,    \* w3.eth.get_balance(address), per address
    single,     \* the running invocation of confirm_payment
    drain,      \* the running invocation of check_pending_notifications
    handed,     \* history: tx hashes of the entries handed to their recipient
    retry,      \* the running invocation of retry_telegram_action
    shown       \* history: confirmation messages since the payment data was empty

vars == <<now, txCount, wallets, payments, cancelled, tick, invCount, sent,
          outbox, userData, batch, reply, feeMarket, balance, single, drain,
          handed, retry, shown>>

-----------------------------------------------------------------------------
(* Bounds of the model.                                                    *)

MaxTime     == 2    \* the clock stops advancing here (one day)
MaxPayments == 2    \* records that schedule_payment may create
MaxSent     == 2    \* transactions that may be submitted in one behaviour
MaxInv      == 2    \* tick invocations that find due records
MaxRef      == 15   \* latest instant at which a calculator run may start
MaxClock    == 30   \* latest instant the clock of a calculator run reaches

-----------------------------------------------------------------------------
(* Program constants.                                                      *)

GasLimit == 21000   \* 'gasLimit': 21000
ChainId  == 1       \* 'chainId': 1
Gwei     == 10      \* w3.to_wei(1, 'gwei'), in units of 10^8 wei
FeeCap   == 100     \* w3.to_wei(100, 'gwei'), in gwei

HalfDaysPerDay == 2
Noon           == 1       \* datetime(year, month, day, 12, 0)
EpochOrdinal   == 738886  \* date(2024, 1, 1).toordinal(), a Monday

NoWallet == "none"
Nothing  == [none |-> TRUE]   \* Python's None

-----------------------------------------------------------------------------
(* The people and addresses of the model.                                  *)

Sender      == "u1"                 \* the user whose requests are modelled
SenderName  == "alice"              \* their handle
Handles     == {"alice", "bob"}     \* handles a request may name
RawAddress  == "0xR"                \* a valid Ethereum address given verbatim
SenderAddrs == {"a1"}               \* addresses the sender's wallet may hold
Users       == {"u1", "u2"}

IsHandle(display) == display \in {"@alice", "@bob"}   \* display_name.startswith('@')
HandleOf(display) == IF display = "@alice" THEN "alice" ELSE "bob"   \* lstrip('@')
UserOfHandle(h)   == IF h = "alice" THEN "u1" ELSE "u2"   \* username_mapping

-----------------------------------------------------------------------------
(* The calendar behind datetime(year, month, day, 12, 0).                  *)

IsLeap(y) == (y % 4 = 0) /\ ((y % 100 # 0) \/ (y % 400 = 0))

DaysInMonth(y, m) ==
    IF m = 2 THEN (IF IsLeap(y) THEN 29 ELSE 28)
    ELSE IF m \in {4, 6, 9, 11} THEN 30 ELSE 31

\* a faulty ValidDate, which lets every month have 31 days; C27 must tell it
\* from the calendar
ValidDateAnyMonth(y, m, d) ==
    /\ y \in 1..9999
    /\ m \in 1..12
    /\ d >= 1 /\ d <= 31

\* datetime(...) raises ValueError unless this holds
ValidDate(y, m, d) ==
    /\ y \in 1..9999
    /\ m \in 1..12
    /\ d >= 1 /\ d <= DaysInMonth(y, m)

RECURSIVE DaysBeforeMonth(_, _)
DaysBeforeMonth(y, m) ==
    IF m <= 1 THEN 0 ELSE DaysBeforeMonth(y, m - 1) + DaysInMonth(y, m - 1)

DaysBeforeYear(y) ==
    365 * (y - 1) + ((y - 1) \div 4) - ((y - 1) \div 100) + ((y - 1) \div 400)

Ordinal(y, m, d) == DaysBeforeYear(y) + DaysBeforeMonth(y, m) + d

\* the instant of noon on the given date
NoonOf(y, m, d) == (Ordinal(y, m, d) - EpochOrdinal) * HalfDaysPerDay + Noon

\* datetime.now().year
YearOf(t) ==
    LET ord == EpochOrdinal + (t \div HalfDaysPerDay)
    IN  CHOOSE y \in 1990..2100 :
            DaysBeforeYear(y) < ord /\ ord <= DaysBeforeYear(y + 1)

\* the cron day of week of an instant: 0 = Sunday, 1 = Monday, ...
CronDow(t) == (((t \div HalfDaysPerDay) % 7) + 1) % 7

\* a faulty CronNext, which also accepts the reference instant itself; C15
\* must tell it from the calculator
CronNextAtOrAfter(c, t) ==
    CHOOSE n \in t..(t + 7 * HalfDaysPerDay) :
        /\ n % HalfDaysPerDay = Noon
        /\ CronDow(n) = c
        /\ \A k \in t..(n - 1) :
              ~(k % HalfDaysPerDay = Noon /\ CronDow(k) = c)

\* croniter("0 12 * * c", t).get_next(): the first noon of weekday c after t
CronNext(c, t) ==
    CHOOSE n \in (t + 1)..(t + 7 * HalfDaysPerDay) :
        /\ n % HalfDaysPerDay = Noon
        /\ CronDow(n) = c
        /\ \A k \in (t + 1)..(n - 1) :
              ~(k % HalfDaysPerDay = Noon /\ CronDow(k) = c)

-----------------------------------------------------------------------------
(* parse_schedule_string.  A schedule text is described by what the three  *)
(* patterns find in it when letter case is ignored: the weekdays w for     *)
(* which it contains "every w" (0 = monday .. 6 = sunday), the number of   *)
(* its "every N days" match, and the day, month and year of its date match *)
(* (the year as typed, without leading zeros); and by the case of its      *)
(* letters.  NoDays and <<>> stand for "the pattern does not match".  The  *)
(* patterns are written in lower case, so they find their words only in a  *)
(* lower-case string.                                                      *)

NoDays == -1

NoMatch == [value |-> Nothing, type |-> "none", extra |-> <<>>]

MinOf(S) == CHOOSE x \in S : \A y \in S : x <= y

\* a faulty lower, which leaves the text as typed; C18 must tell it from
\* the parser
lower_omitted(text) == text

\* schedule_string.lower()
lower(text) == [text EXCEPT !.case = "lower"]

\* a faulty cron_weekday, which keeps Python's weekday numbers; C17 must tell
\* it from the parser
cron_weekday_unshifted(i) == i % 7

\* cron_weekday = (i + 1) % 7
cron_weekday(i) == (i + 1) % 7

parse_schedule_string(text, t) ==
    LET schedule_string == lower(text)
        words == schedule_string.case = "lower"
    IN
    IF words /\ schedule_string.weekdays # {}
    THEN [value |-> [cron |-> cron_weekday(MinOf(schedule_string.weekdays))],
          type  |-> "weekly", extra |-> <<>>]
    ELSE IF words /\ schedule_string.days # NoDays
    THEN [value |-> [at |-> t + schedule_string.days * HalfDaysPerDay],
          type  |-> "periodic", extra |-> <<schedule_string.days>>]
    ELSE IF schedule_string.date # <<>>
    THEN LET date == schedule_string.date[1]
             year == IF date.y < 100
                     THEN (YearOf(t) \div 100) * 100 + date.y
                     ELSE date.y
         IN  IF ValidDate(year, date.m, date.d)
             THEN [value |-> [at |-> NoonOf(year, date.m, date.d)],
                   type  |-> "one-time", extra |-> <<>>]
             ELSE NoMatch
    ELSE NoMatch

\* calculate_next_execution, reading the clock at t
calculate_next_execution(schedule_type, schedule_value, t) ==
    IF schedule_type = "weekly" THEN CronNext(schedule_value.cron, t)
    ELSE IF schedule_type = "periodic" THEN t + schedule_value.days * HalfDaysPerDay
    ELSE schedule_value.at   \* "one-time": the stored datetime

-----------------------------------------------------------------------------
(* calculate_optimal_gas: the quote computed from what the network reports;*)
(* primary_raises says that the dynamic-fee primitives are unavailable.    *)

Min(a, b) == IF a <= b THEN a ELSE b

NoBaseFee == -1   \* the latest block has no 'baseFeePerGas'

\* latest_block.get('baseFeePerGas', w3.eth.gas_price)
BaseFeeOf(market) ==
    IF market.base_fee = NoBaseFee THEN market.gas_price ELSE market.base_fee

\* a faulty calculate_optimal_gas, which does not cap the fee; C24 must tell
\* it from the estimator
calculate_optimal_gas_uncapped(base_fee, suggested_tip, gas_price, primary_raises) ==
    IF ~primary_raises
    THEN LET priority_fee == suggested_tip + 1 * Gwei
             max_fee_per_gas == ((3 * base_fee) \div 2) + priority_fee
         IN  [maxFeePerGas |-> max_fee_per_gas,
              maxPriorityFeePerGas |-> priority_fee,
              gasLimit |-> GasLimit]
    ELSE [gasPrice |-> (gas_price * 12) \div 10, gasLimit |-> GasLimit]

calculate_optimal_gas(base_fee, suggested_tip, gas_price, primary_raises) ==
    IF ~primary_raises
    THEN LET priority_fee == suggested_tip + 1 * Gwei
             max_fee_per_gas == ((3 * base_fee) \div 2) + priority_fee
         IN  [maxFeePerGas |-> Min(max_fee_per_gas, FeeCap * Gwei),
              maxPriorityFeePerGas |-> priority_fee,
              gasLimit |-> GasLimit]
    ELSE [gasPrice |-> (gas_price * 12) \div 10, gasLimit |-> GasLimit]

IsLegacy(gas_params) == "gasPrice" \in DOMAIN gas_params

\* estimated_gas_cost_wei, as every flow computes it from the quote
EstimatedGasCost(gas_params) ==
    IF IsLegacy(gas_params)
    THEN gas_params.gasPrice * gas_params.gasLimit
    ELSE gas_params.maxFeePerGas * gas_params.gasLimit

RECURSIVE SumAmounts(_)
SumAmounts(recipients) ==
    IF recipients = <<>> THEN 0
    ELSE Head(recipients).amount_wei + SumAmounts(Tail(recipients))

(* The balance pre-flight of each flow: TRUE when the request is rejected. *)

\* a faulty PayRejects, which also rejects a balance that just covers the
\* total; C9 must tell it from the pre-flight
PayRejectsAtEquality(balance_wei, amount_wei, gas_params) ==
    balance_wei <= (amount_wei + EstimatedGasCost(gas_params))

PayRejects(balance_wei, amount_wei, gas_params) ==
    balance_wei < (amount_wei + EstimatedGasCost(gas_params))

BatchRejects(balance_wei, recipients, gas_params) ==
    LET total_amount_wei == SumAmounts(recipients)
        total_gas_wei    == EstimatedGasCost(gas_params) * Len(recipients)
    IN  balance_wei < total_amount_wei + total_gas_wei

BatchMultiRejects(balance_wei, recipients, gas_params) ==
    LET total_amount_wei == SumAmounts(recipients)
        total_gas_wei    == EstimatedGasCost(gas_params) * Len(recipients)
    IN  balance_wei < total_amount_wei + total_gas_wei

ScheduledRejects(balance_wei, amount_wei, gas_params) ==
    balance_wei < (amount_wei + EstimatedGasCost(gas_params))

\* a faulty BuildTx, which puts a gas price next to the fee fields of a
\* dynamic quote; C31 must tell it from the flows
BuildTxMixed(nonce, to, value, gas_params) ==
    IF IsLegacy(gas_params)
    THEN [nonce |-> nonce, to |-> to, value |-> value,
          gas |-> gas_params.gasLimit, gasPrice |-> gas_params.gasPrice,
          chainId |-> ChainId]
    ELSE [nonce |-> nonce, to |-> to, value |-> value,
          gas |-> gas_params.gasLimit,
          gasPrice |-> gas_params.maxFeePerGas,
          maxFeePerGas |-> gas_params.maxFeePerGas,
          maxPriorityFeePerGas |-> gas_params.maxPriorityFeePerGas,
          chainId |-> ChainId, type |-> 2]

\* the transaction dictionary every flow builds from the quote
BuildTx(nonce, to, value, gas_params) ==
    IF IsLegacy(gas_params)
    THEN [nonce |-> nonce, to |-> to, value |-> value,
          gas |-> gas_params.gasLimit, gasPrice |-> gas_params.gasPrice,
          chainId |-> ChainId]
    ELSE [nonce |-> nonce, to |-> to, value |-> value,
          gas |-> gas_params.gasLimit,
          maxFeePerGas |-> gas_params.maxFeePerGas,
          maxPriorityFeePerGas |-> gas_params.maxPriorityFeePerGas,
          chainId |-> ChainId, type |-> 2]

-----------------------------------------------------------------------------
(* The payment store.                                                      *)

Ids == DOMAIN payments

\* a faulty IsDue, which does not look at the clock; C20 must tell it from
\* the query
IsDueIgnoresClock(rec, t) == rec.active

\* scheduled_payments_collection.find({"next_execution": {"$lte": now}, "active": True})
IsDue(rec, t) == rec.active /\ rec.next_execution <= t

RECURSIVE DueFrom(_, _, _)
DueFrom(store, t, i) ==
    IF i > Len(store) THEN <<>>
    ELSE IF IsDue(store[i], t)
         THEN <<[id |-> i, rec |-> store[i]]>> \o DueFrom(store, t, i + 1)
         ELSE DueFrom(store, t, i + 1)

get_all_due_scheduled_payments(store, t) == DueFrom(store, t, 1)

\* find({"sender_id": str_user_id}): the records of the user, as read back
RECURSIVE get_scheduled_payments(_, _)
get_scheduled_payments(store, user_id) ==
    IF store = <<>> THEN <<>>
    ELSE IF Head(store).sender_id = user_id
         THEN <<Head(store)>> \o get_scheduled_payments(Tail(store), user_id)
         ELSE get_scheduled_payments(Tail(store), user_id)

\* update_one({"_id": payment_id}, {"$set": update_data})
update_scheduled_payment(store, payment_id, update_data) ==
    IF payment_id \in DOMAIN store
    THEN [store EXCEPT ![payment_id] =
            [f \in DOMAIN store[payment_id] |->
                IF f \in DOMAIN update_data THEN update_data[f]
                ELSE store[payment_id][f]]]
    ELSE store

\* a faulty DispatchUpdate, which writes the active flag with the next
\* execution; C34 must tell it from the tick
DispatchUpdateReactivates(payment, t) ==
    IF payment.schedule_type = "one-time"
    THEN [active |-> FALSE]
    ELSE IF payment.schedule_type = "weekly"
    THEN [next_execution |-> CronNext(payment.schedule_value.cron, t),
          active |-> TRUE]
    ELSE [next_execution |-> t + payment.schedule_value.days * HalfDaysPerDay,
          active |-> TRUE]

\* the update the tick writes after a submitted transaction
DispatchUpdate(payment, t) ==
    IF payment.schedule_type = "one-time"
    THEN [active |-> FALSE]
    ELSE IF payment.schedule_type = "weekly"
    THEN [next_execution |-> CronNext(payment.schedule_value.cron, t)]
    ELSE [next_execution |-> t + payment.schedule_value.days * HalfDaysPerDay]

\* a faulty CancelUpdate, which also clears the next execution; C22 must tell
\* it from the cancel button
CancelUpdateClearsSchedule == [active |-> FALSE, next_execution |-> 0]

\* the update of the cancel button
CancelUpdate == [active |-> FALSE]

-----------------------------------------------------------------------------
(* What the environment may answer in this model.                          *)

Rich == 100000000            \* a balance that covers every request of the model
BalanceChoices == {0, Rich}  \* what w3.eth.get_balance may report
BaseFees  == {1 * Gwei}      \* latest block's baseFeePerGas
Tips      == {1 * Gwei}      \* w3.eth.max_priority_fee
GasPrices == {1 * Gwei}      \* w3.eth.gas_price

FeeMarkets ==
    [base_fee : BaseFees, tip : Tips, gas_price : GasPrices,
     primary_raises : BOOLEAN]

\* the quote calculate_optimal_gas() returns in the current fee market
Quote ==
    calculate_optimal_gas(BaseFeeOf(feeMarket), feeMarket.tip,
                          feeMarket.gas_price, feeMarket.primary_raises)

TickIds == {1, 2}

IdleTick == [pc |-> "idle", due |-> <<>>, idx |-> 1, inv |-> 0, last |-> "none"]

IdleBatch == [pc |-> "idle", recipients |-> <<>>, idx |-> 1, results |-> <<>>,
              base |-> 0, multi |-> FALSE, from |-> NoWallet]

NoHash == 0   \* 'tx_hash': None; the hashes of the model count from 1

IdleSingle == [pc |-> "idle", payment |-> <<>>, tx_hash |-> NoHash]

NoPending == <<>>    \* the key is absent from context.user_data

IdleDrain == [pc |-> "idle", username |-> "", notifications |-> <<>>, idx |-> 1]

IdleRetry == [pc |-> "idle", action_func |-> <<>>, attempt |-> 0, calls |-> 0,
              result |-> "none"]

Init ==
    /\ now = 0
    /\ txCount = [a \in SenderAddrs |-> 0]
    /\ wallets = [u \in Users |-> IF u = Sender THEN "a1" ELSE NoWallet]
    /\ payments = <<>>
    /\ cancelled = {}
    /\ tick = [k \in TickIds |-> IdleTick]
    /\ invCount = 0
    /\ sent = <<>>
    /\ outbox = [h \in Handles |-> <<>>]
    /\ userData = [payment |-> NoPending, batch_payment |-> NoPending,
                   batch_payment_multi |-> NoPending]
    /\ batch = IdleBatch
    /\ reply = "none"
    /\ feeMarket \in FeeMarkets
    /\ balance \in [SenderAddrs -> BalanceChoices]
    /\ single = IdleSingle
    /\ drain = IdleDrain
    /\ handed = {}
    /\ retry = IdleRetry
    /\ shown = {}

\* no coroutine is inside a stretch of code without an await
LoopFree == (\A k \in TickIds : tick[k].pc # "run") /\ batch.pc # "run"

\* the application handles one update at a time: no handler is in progress
HandlerFree ==
    single.pc = "idle" /\ batch.pc \in {"idle", "done"} /\ drain.pc = "idle"

-----------------------------------------------------------------------------
(* The environment: the clock, the chain and the wallet store.             *)

AdvanceClock ==
    /\ \E d \in {HalfDaysPerDay} :
          /\ now + d <= MaxTime
          /\ now' = now + d
    /\ UNCHANGED <<txCount, wallets, payments, cancelled, tick, invCount,
                   sent, outbox, userData, batch, reply, feeMarket, balance,
                   single, drain, handed, retry, shown>>

\* the submitted transaction that carries the address's next nonce is mined:
\* the count the network reports for the address grows
Mine ==
    /\ \E a \in SenderAddrs :
          /\ \E i \in DOMAIN sent :
                sent[i].from = a /\ sent[i].tx.nonce = txCount[a]
          /\ txCount' = [txCount EXCEPT ![a] = @ + 1]
    /\ UNCHANGED <<now, wallets, payments, cancelled, tick, invCount, sent,
                   outbox, userData, batch, reply, feeMarket, balance, single,
                   drain, handed, retry, shown>>

\* the sender's wallet document disappears from the wallet collection
WalletLost ==
    /\ wallets[Sender] # NoWallet
    /\ wallets' = [wallets EXCEPT ![Sender] = NoWallet]
    /\ UNCHANGED <<now, txCount, payments, cancelled, tick, invCount, sent,
                   outbox, userData, batch, reply, feeMarket, balance, single,
                   drain, handed, retry, shown>>

\* funds arrive at or leave the sender's address
BalanceChanges ==
    /\ \E a \in SenderAddrs, b \in BalanceChoices :
          /\ b # balance[a]
          /\ balance' = [balance EXCEPT ![a] = b]
    /\ UNCHANGED <<now, txCount, wallets, payments, cancelled, tick, invCount,
                   sent, outbox, userData, batch, reply, feeMarket, single,
                   drain, handed, retry, shown>>

-----------------------------------------------------------------------------
(* import_wallet (/import private-key): the user's wallet document is      *)
(* replaced by the wallet of the given key.                                *)

ImportAddrs == {"a2"}   \* addresses of the keys the sender may import
WalletAddrs == SenderAddrs \cup ImportAddrs

\* the keys typed after /import: a well-formed key, or some other text
ImportKeys == {<<"key", a>> : a \in ImportAddrs} \cup {<<"text">>}

\* private_key.startswith('0x') and len(private_key) == 66
WellFormedKey(private_key) == private_key[1] = "key"

\* Account.from_key(private_key).address
AddressOfKey(private_key) == private_key[2]

import_wallet(private_key) ==
    /\ LoopFree /\ HandlerFree
    /\ IF ~WellFormedKey(private_key)
       THEN reply' = "invalid-key" /\ UNCHANGED wallets
       ELSE /\ wallets' = [wallets EXCEPT ![Sender] = AddressOfKey(private_key)]
            /\ reply' = "imported"
    /\ UNCHANGED <<now, txCount, payments, cancelled, tick, invCount, sent,
                   outbox, userData, batch, feeMarket, balance, single, drain,
                   handed, retry, shown>>

-----------------------------------------------------------------------------
(* schedule_payment (/schedule recipient amount schedule...).              *)

Text(weekdays, days, date) ==
    [weekdays |-> weekdays, days |-> days, date |-> date, case |-> "lower"]

\* the same text typed in capital letters
Shouted(text) == [text EXCEPT !.case = "upper"]

EveryMonday  == Text({0}, NoDays, <<>>)                          \* "every monday"
Every0Days   == Text({}, 0, <<>>)                                \* "every 0 days"
Every1Days   == Text({}, 1, <<>>)                                \* "every 1 days"
FirstJan     == Text({}, NoDays, <<[d |-> 1, m |-> 1, y |-> 24]>>)     \* "1-1-24"
ThirtiethFeb == Text({}, NoDays, <<[d |-> 30, m |-> 2, y |-> 2024]>>)  \* "30-02-2024"
Tomorrow     == Text({}, NoDays, <<>>)                           \* "tomorrow"

\* float(amount_str) raises ValueError when ok is FALSE
GoodAmount == [ok |-> TRUE, wei |-> 1]     \* "0.00000000001"
BadAmount  == [ok |-> FALSE, wei |-> 0]    \* "ten"

\* an amount typed in whole ether: its amount_wei, n x 10^18, is beyond the
\* integers of the model, so it is kept as the number of ether
Ether(n) == [ok |-> TRUE, ether |-> n]     \* "10"

MaxEtherInt64 == 9   \* 9 x 10^18 < 2^63 <= 10 x 10^18

\* the amount_wei of the amount fits the 8-byte integer of a stored document
\* (the amounts kept in wei are below 2^31 x 10^8 wei)
FitsInt64(amount_text) ==
    "ether" \in DOMAIN amount_text => amount_text.ether <= MaxEtherInt64

Request(recipient, amount, text) ==
    [recipient |-> recipient, amount |-> amount, text |-> text]

\* the /schedule requests of the model
ScheduleRequests ==
    { Request("@bob", GoodAmount, FirstJan),
      Request(RawAddress, GoodAmount, FirstJan),
      Request(RawAddress, GoodAmount, Every0Days),
      Request("@bob", GoodAmount, Every1Days),
      Request(RawAddress, GoodAmount, EveryMonday),
      Request("@alice", GoodAmount, EveryMonday),
      Request("0xbad", GoodAmount, Every1Days),
      Request("@bob", BadAmount, Every1Days),
      Request("@bob", GoodAmount, ThirtiethFeb),
      Request(RawAddress, GoodAmount, Tomorrow) }

\* w3.is_address: a well-formed address, the sender's own included
IsAddress(recipient) == recipient = RawAddress \/ recipient \in SenderAddrs

GenAddrs == <<"g1", "g2", "g3">>   \* addresses of freshly generated keys
KeyOf(address) == <<"key", address>>

\* the schedule value stored in the record
StoredValue(parsed) ==
    IF parsed.type = "periodic" THEN [days |-> parsed.extra[1]]
    ELSE parsed.value

schedule_payment(recipient, amount_text, text) ==
    /\ LoopFree /\ HandlerFree
    /\ Len(payments) < MaxPayments
    /\ UNCHANGED <<now, txCount, wallets, cancelled, tick, invCount, sent,
                   outbox, userData, batch, feeMarket, balance, single, drain,
                   handed, retry, shown>>
    /\ IF wallets[Sender] = NoWallet
       THEN reply' = "no-wallet" /\ UNCHANGED payments
       ELSE IF ~amount_text.ok
       THEN reply' = "invalid-amount" /\ UNCHANGED payments
       ELSE LET parsed == parse_schedule_string(text, now) IN
            IF parsed.type = "none"
            THEN reply' = "invalid-schedule" /\ UNCHANGED payments
            ELSE IF IsHandle(recipient) /\ HandleOf(recipient) = SenderName
            THEN reply' = "self-payment" /\ UNCHANGED payments
            ELSE IF ~IsHandle(recipient) /\ ~IsAddress(recipient)
            THEN reply' = "invalid-address" /\ UNCHANGED payments
            ELSE
              LET next_execution ==
                      calculate_next_execution(parsed.type, StoredValue(parsed), now)
                  handle     == IsHandle(recipient)
                  has_wallet == handle /\ wallets[UserOfHandle(HandleOf(recipient))] # NoWallet
                  is_new     == handle /\ ~has_wallet
                  recipient_address ==
                      IF ~handle THEN recipient
                      ELSE IF has_wallet
                           THEN wallets[UserOfHandle(HandleOf(recipient))]
                           ELSE GenAddrs[Len(payments) + 1]
                  payment_data ==
                      [sender_id         |-> Sender,
                       sender_address    |-> wallets[Sender],
                       recipient_address |-> recipient_address,
                       recipient_display |-> recipient,
                       amount_wei        |-> amount_text.wei,
                       schedule_type     |-> parsed.type,
                       schedule_value    |-> StoredValue(parsed),
                       next_execution    |-> next_execution,
                       active            |-> TRUE,
                       is_new_wallet     |-> is_new,
                       private_key       |-> IF is_new THEN KeyOf(recipient_address)
                                             ELSE <<>>]
              IN  IF ~FitsInt64(amount_text)
                  THEN \* insert_one raises OverflowError: "Error saving"
                       reply' = "save-failed" /\ UNCHANGED payments
                  ELSE /\ payments' = Append(payments, payment_data)
                       /\ reply' = "scheduled"

\* a faulty cancel_scheduled, which deletes the record from the store; C23
\* must tell it from the cancel button
cancel_scheduled_deletes(id) ==
    /\ LoopFree /\ HandlerFree
    /\ id \in Ids
    /\ payments[id].active
    /\ payments' = SubSeq(payments, 1, id - 1)
                       \o SubSeq(payments, id + 1, Len(payments))
    /\ cancelled' = cancelled \cup {id}
    /\ reply' = "cancelled"
    /\ UNCHANGED <<now, txCount, wallets, tick, invCount, sent, outbox,
                   userData, batch, feeMarket, balance, single, drain, handed,
                   retry, shown>>

\* button_handler, callback 'cancel_scheduled_<id>'; the button is offered
\* by manage_scheduled_payments for the active payments
cancel_scheduled(id) ==
    /\ LoopFree /\ HandlerFree
    /\ id \in Ids
    /\ payments[id].active
    /\ payments' = update_scheduled_payment(payments, id, CancelUpdate)
    /\ cancelled' = cancelled \cup {id}
    /\ reply' = "cancelled"
    /\ UNCHANGED <<now, txCount, wallets, tick, invCount, sent, outbox,
                   userData, batch, feeMarket, balance, single, drain, handed,
                   retry, shown>>

-----------------------------------------------------------------------------
(* process_scheduled_payments: one invocation k of the tick.  It fetches   *)
(* the due records once and then handles them one by one; its only await   *)
(* is the message to the sender after a record has been dispatched.        *)

TickStart(k) ==
    /\ tick[k].pc = "idle"
    /\ LoopFree
    /\ invCount < MaxInv
    /\ LET due_payments == get_all_due_scheduled_payments(payments, now) IN
         /\ due_payments # <<>>
         /\ Len(sent) + Len(due_payments) <= MaxSent
         /\ tick' = [tick EXCEPT ![k] =
                        [pc |-> "run", due |-> due_payments, idx |-> 1,
                         inv |-> invCount + 1, last |-> "none"]]
    /\ invCount' = invCount + 1
    /\ UNCHANGED <<now, txCount, wallets, payments, cancelled, sent, outbox,
                   userData, batch, reply, feeMarket, balance, single, drain,
                   handed, retry, shown>>

\* the record the loop is at
Current(k) == tick[k].due[tick[k].idx]

\* the tick after the current record has been handled with the given outcome
TickAfter(k, outcome, suspended) ==
    [tick[k] EXCEPT !.pc = IF suspended THEN "await" ELSE "run",
                    !.idx = @ + 1, !.last = outcome]

\* the loop is at a record (it has not run off the end of due_payments)
AtRecord(k) == tick[k].pc = "run" /\ tick[k].idx <= Len(tick[k].due)

\* "Wallet not found for sender ..., skipping payment"
TickNoWallet(k) ==
    /\ AtRecord(k)
    /\ wallets[Current(k).rec.sender_id] = NoWallet
    /\ tick' = [tick EXCEPT ![k] = TickAfter(k, "no-wallet", FALSE)]
    /\ UNCHANGED <<now, txCount, wallets, payments, cancelled, invCount, sent,
                   outbox, userData, batch, reply, feeMarket, balance, single,
                   drain, handed, retry, shown>>

\* a faulty TickInsufficient, which deactivates the record it could not pay;
\* C1 must tell it from the tick
TickInsufficientDeactivates(k) ==
    /\ AtRecord(k)
    /\ wallets[Current(k).rec.sender_id] # NoWallet
    /\ ScheduledRejects(balance[wallets[Current(k).rec.sender_id]],
                        Current(k).rec.amount_wei, Quote)
    /\ tick' = [tick EXCEPT ![k] = TickAfter(k, "insufficient", FALSE)]
    /\ payments' = update_scheduled_payment(payments, Current(k).id,
                                            [active |-> FALSE])
    /\ UNCHANGED <<now, txCount, wallets, cancelled, invCount, sent, outbox,
                   userData, batch, reply, feeMarket, balance, single, drain,
                   handed, retry, shown>>

\* "Insufficient balance for scheduled payment"
TickInsufficient(k) ==
    /\ AtRecord(k)
    /\ wallets[Current(k).rec.sender_id] # NoWallet
    /\ ScheduledRejects(balance[wallets[Current(k).rec.sender_id]],
                        Current(k).rec.amount_wei, Quote)
    /\ tick' = [tick EXCEPT ![k] = TickAfter(k, "insufficient", FALSE)]
    /\ UNCHANGED <<now, txCount, wallets, payments, cancelled, invCount, sent,
                   outbox, userData, batch, reply, feeMarket, balance, single,
                   drain, handed, retry, shown>>

\* a faulty TickError, which leaves the loop at the exception; C32 must tell
\* it from the tick
TickErrorBreaks(k) ==
    /\ AtRecord(k)
    /\ wallets[Current(k).rec.sender_id] # NoWallet
    /\ tick' = [tick EXCEPT ![k] =
                   [tick[k] EXCEPT !.idx = Len(tick[k].due) + 1,
                                   !.last = "error"]]
    /\ UNCHANGED <<now, txCount, wallets, payments, cancelled, invCount, sent,
                   outbox, userData, batch, reply, feeMarket, balance, single,
                   drain, handed, retry, shown>>

\* get_balance, the fee quote, get_transaction_count, signing or submitting
\* raises: "Error processing scheduled payment"
TickError(k) ==
    /\ AtRecord(k)
    /\ wallets[Current(k).rec.sender_id] # NoWallet
    /\ tick' = [tick EXCEPT ![k] = TickAfter(k, "error", FALSE)]
    /\ UNCHANGED <<now, txCount, wallets, payments, cancelled, invCount, sent,
                   outbox, userData, batch, reply, feeMarket, balance, single,
                   drain, handed, retry, shown>>

\* the notification the tick appends for a recipient handle
ScheduledNotification(payment, tx_hash, t) ==
    [_id |-> t, type |-> "received_eth", amount |-> payment.amount_wei,
     sender_username |-> "Scheduled Payment", tx_hash |-> tx_hash,
     new_wallet |-> payment.is_new_wallet]

\* the transaction is submitted; then the recipient's notification is
\* appended (which may raise), the record is updated and the sender is told
TickDispatch(k) ==
    /\ AtRecord(k)
    /\ wallets[Current(k).rec.sender_id] # NoWallet
    /\ \E notify_raises \in BOOLEAN, sender_told \in BOOLEAN :
          LET payment      == Current(k).rec
              gas_params   == Quote
              id           == Current(k).id
              from_address == wallets[payment.sender_id]
              tx == BuildTx(txCount[from_address], payment.recipient_address,
                            payment.amount_wei, gas_params)
              tx_hash == Len(sent) + 1
              handle  == IsHandle(payment.recipient_display)
          IN  /\ ~ScheduledRejects(balance[from_address], payment.amount_wei,
                                   gas_params)
              /\ notify_raises => handle
              /\ notify_raises => ~sender_told
              /\ sent' = Append(sent, [flow |-> "scheduled", inv |-> tick[k].inv,
                                       id |-> id, occ |-> payment.next_execution,
                                       at |-> now, from |-> from_address,
                                       item |-> 0, tx |-> tx])
              /\ IF notify_raises
                 THEN /\ UNCHANGED <<outbox, payments>>
                      /\ tick' = [tick EXCEPT ![k] =
                                     TickAfter(k, "notify-failed", FALSE)]
                 ELSE /\ outbox' =
                           IF handle
                           THEN [outbox EXCEPT ![HandleOf(payment.recipient_display)] =
                                   Append(@, ScheduledNotification(payment, tx_hash, now))]
                           ELSE outbox
                      /\ payments' = update_scheduled_payment(
                                        payments, id, DispatchUpdate(payment, now))
                      /\ tick' = [tick EXCEPT ![k] =
                                     TickAfter(k, "sent", sender_told)]
    /\ UNCHANGED <<now, txCount, wallets, cancelled, invCount, userData,
                   batch, reply, feeMarket, balance, single, drain, handed,
                   retry, shown>>

\* the await of context.bot.send_message returns (or raises and is logged)
TickResume(k) ==
    /\ tick[k].pc = "await"
    /\ LoopFree
    /\ tick' = [tick EXCEPT ![k].pc = "run"]
    /\ UNCHANGED <<now, txCount, wallets, payments, cancelled, invCount, sent,
                   outbox, userData, batch, reply, feeMarket, balance, single,
                   drain, handed, retry, shown>>

\* the for loop is exhausted and the invocation returns
TickEnd(k) ==
    /\ tick[k].pc = "run"
    /\ tick[k].idx > Len(tick[k].due)
    /\ tick' = [tick EXCEPT ![k] = IdleTick]
    /\ UNCHANGED <<now, txCount, wallets, payments, cancelled, invCount, sent,
                   outbox, userData, batch, reply, feeMarket, balance, single,
                   drain, handed, retry, shown>>

TickStep(k) ==
    \/ TickStart(k)
    \/ TickNoWallet(k)
    \/ TickInsufficient(k)
    \/ TickError(k)
    \/ TickDispatch(k)
    \/ TickResume(k)
    \/ TickEnd(k)

-----------------------------------------------------------------------------
(* pay (/pay recipient amount) and confirm_payment.                        *)

PayRequest(recipient, amount) == [recipient |-> recipient, amount |-> amount]

\* the /pay requests of the model
PayRequests ==
    { PayRequest("@bob", GoodAmount),
      PayRequest(RawAddress, GoodAmount),
      PayRequest("@alice", GoodAmount),
      PayRequest("0xbad", GoodAmount),
      PayRequest("@bob", BadAmount) }

PayAddress == "gp"   \* the address of the key pay generates for a new recipient

\* the notification pay prepares for a recipient handle (<<>> for an address)
PayNotification(recipient, is_new_wallet, recipient_address, t) ==
    IF ~IsHandle(recipient) THEN <<>>
    ELSE IF is_new_wallet
    THEN <<[_id |-> t, type |-> "received_eth", sender_username |-> SenderName,
            wallet_address |-> recipient_address,
            private_key |-> KeyOf(recipient_address), new_wallet |-> TRUE]>>
    ELSE <<[_id |-> t, type |-> "received_eth", sender_username |-> SenderName,
            new_wallet |-> FALSE]>>

\* the confirmation message of a request, told by what it offers to confirm
Message(to_address, display_name, amount_wei) ==
    [to_address |-> to_address, display_name |-> display_name,
     amount_wei |-> amount_wei]

\* a faulty pay, which stores the payment before it looks at the balance;
\* C10 must tell it from the handler
payStoresBeforeGuard(recipient, amount_text) ==
    /\ LoopFree /\ HandlerFree
    /\ wallets[Sender] # NoWallet
    /\ amount_text.ok
    /\ IsAddress(recipient)
    /\ userData' = [userData EXCEPT !.payment =
           <<[from_address  |-> wallets[Sender],
              private_key   |-> KeyOf(wallets[Sender]),
              to_address    |-> recipient,
              display_name  |-> recipient,
              amount_wei    |-> amount_text.wei,
              is_new_wallet |-> FALSE,
              notification  |-> <<>>]>>]
    /\ reply' = IF PayRejects(balance[wallets[Sender]], amount_text.wei, Quote)
                THEN "insufficient" ELSE "confirm"
    /\ shown' = IF PayRejects(balance[wallets[Sender]], amount_text.wei, Quote)
                THEN shown
                ELSE shown \cup {Message(recipient, recipient, amount_text.wei)}
    /\ UNCHANGED <<now, txCount, wallets, payments, cancelled, tick, invCount,
                   sent, outbox, batch, feeMarket, balance, single, drain,
                   handed, retry>>

pay(recipient, amount_text) ==
    /\ LoopFree /\ HandlerFree
    /\ UNCHANGED <<now, txCount, wallets, payments, cancelled, tick, invCount,
                   sent, outbox, batch, feeMarket, balance, single, drain,
                   handed, retry>>
    /\ IF wallets[Sender] = NoWallet
       THEN reply' = "no-wallet" /\ UNCHANGED <<userData, shown>>
       ELSE IF ~amount_text.ok
       THEN reply' = "invalid-amount" /\ UNCHANGED <<userData, shown>>
       ELSE IF IsHandle(recipient) /\ HandleOf(recipient) = SenderName
       THEN reply' = "self-payment" /\ UNCHANGED <<userData, shown>>
       ELSE IF ~IsHandle(recipient) /\ ~IsAddress(recipient)
       THEN reply' = "invalid-address" /\ UNCHANGED <<userData, shown>>
       ELSE
         LET from_address == wallets[Sender]
             handle     == IsHandle(recipient)
             has_wallet == handle /\ wallets[UserOfHandle(HandleOf(recipient))] # NoWallet
             is_new_wallet == handle /\ ~has_wallet
             recipient_address ==
                 IF ~handle THEN recipient
                 ELSE IF has_wallet
                      THEN wallets[UserOfHandle(HandleOf(recipient))]
                      ELSE PayAddress
             gas_params == Quote
         IN  IF PayRejects(balance[from_address], amount_text.wei, gas_params)
             THEN reply' = "insufficient" /\ UNCHANGED <<userData, shown>>
             ELSE /\ shown' = shown \cup
                        {Message(recipient_address, recipient, amount_text.wei)}
                  /\ userData' = [userData EXCEPT !.payment =
                        <<[from_address  |-> from_address,
                           private_key   |-> KeyOf(from_address),
                           to_address    |-> recipient_address,
                           display_name  |-> recipient,
                           amount_wei    |-> amount_text.wei,
                           is_new_wallet |-> is_new_wallet,
                           notification  |-> PayNotification(recipient,
                                  is_new_wallet, recipient_address, now)]>>]
                  /\ reply' = "confirm"

\* the 'Confirm Payment' button of one of the messages is pressed: up to the
\* "Processing payment" message
ConfirmStart ==
    /\ LoopFree /\ HandlerFree
    /\ IF userData.payment = NoPending
       THEN reply' = "not-found" /\ UNCHANGED single
       ELSE /\ single' = [pc |-> "await", payment |-> userData.payment,
                           tx_hash |-> NoHash]
            /\ reply' = "processing"
    /\ UNCHANGED <<now, txCount, wallets, payments, cancelled, tick, invCount,
                   sent, outbox, userData, batch, feeMarket, balance, drain,
                   handed, retry, shown>>

\* the transactions of the address that the network has not yet counted
Pending(address) ==
    {i \in DOMAIN sent :
        sent[i].from = address /\ sent[i].tx.nonce >= txCount[address]}

\* a faulty ConfirmSubmit, which numbers its transaction after the sender's
\* transactions in flight; C25 must tell it from the handler
ConfirmSubmitAfterPending ==
    /\ single.pc = "await"
    /\ LoopFree
    /\ Len(sent) < MaxSent
    /\ LET payment == single.payment[1]
           nonce == txCount[payment.from_address]
                       + Cardinality(Pending(payment.from_address))
           tx == BuildTx(nonce, payment.to_address, payment.amount_wei, Quote)
       IN  sent' = Append(sent, [flow |-> "pay", inv |-> 0, id |-> 0, occ |-> 0,
                                 at |-> now, from |-> payment.from_address,
                                 item |-> 0, tx |-> tx])
    /\ single' = [single EXCEPT !.pc = "told", !.tx_hash = Len(sent) + 1]
    /\ UNCHANGED <<now, txCount, wallets, payments, cancelled, tick, invCount,
                   outbox, userData, batch, reply, feeMarket, balance, drain,
                   handed, retry, shown>>

\* the transaction is built, signed and submitted, up to the success message
ConfirmSubmit ==
    /\ single.pc = "await"
    /\ LoopFree
    /\ Len(sent) < MaxSent
    /\ LET payment == single.payment[1]
           tx == BuildTx(txCount[payment.from_address], payment.to_address,
                         payment.amount_wei, Quote)
       IN  sent' = Append(sent, [flow |-> "pay", inv |-> 0, id |-> 0, occ |-> 0,
                                 at |-> now, from |-> payment.from_address,
                                 item |-> 0, tx |-> tx])
    /\ single' = [single EXCEPT !.pc = "told", !.tx_hash = Len(sent) + 1]
    /\ UNCHANGED <<now, txCount, wallets, payments, cancelled, tick, invCount,
                   outbox, userData, batch, reply, feeMarket, balance, drain,
                   handed, retry, shown>>

\* a faulty ConfirmFails, which appends the recipient's notification although
\* nothing was submitted; C35 must tell it from the handler
ConfirmFailsNotifies ==
    /\ single.pc = "await"
    /\ LoopFree
    /\ LET payment == single.payment[1] IN
          outbox' =
             IF payment.notification # <<>>
             THEN [outbox EXCEPT ![HandleOf(payment.display_name)] =
                     Append(@, payment.notification[1] @@ [tx_hash |-> NoHash])]
             ELSE outbox
    /\ single' = IdleSingle
    /\ shown' = {}
    /\ userData' = [userData EXCEPT !.payment = NoPending]
    /\ reply' = "error"
    /\ UNCHANGED <<now, txCount, wallets, payments, cancelled, tick, invCount,
                   sent, batch, feeMarket, balance, drain, handed, retry>>

\* the fee quote, the nonce, signing or submitting raises: the error is shown
\* and the payment data cleared
ConfirmFails ==
    /\ single.pc = "await"
    /\ LoopFree
    /\ single' = IdleSingle
    /\ shown' = {}
    /\ userData' = [userData EXCEPT !.payment = NoPending]
    /\ reply' = "error"
    /\ UNCHANGED <<now, txCount, wallets, payments, cancelled, tick, invCount,
                   sent, outbox, batch, feeMarket, balance, drain, handed, retry>>

\* a faulty ConfirmFinish, which leaves the payment data in place; C39 must
\* tell it from the handler
ConfirmFinishKeepsData ==
    /\ single.pc = "told"
    /\ LoopFree
    /\ \E raises \in BOOLEAN :
          LET payment == single.payment[1]
              notify  == payment.notification # <<>> /\ ~raises
              tx_hash == single.tx_hash
          IN  /\ outbox' =
                    IF notify
                    THEN [outbox EXCEPT ![HandleOf(payment.display_name)] =
                            Append(@, payment.notification[1] @@ [tx_hash |-> tx_hash])]
                    ELSE outbox
              /\ reply' = IF raises THEN "error" ELSE "paid"
    /\ single' = IdleSingle
    /\ shown' = {}
    /\ userData' = userData
    /\ UNCHANGED <<now, txCount, wallets, payments, cancelled, tick, invCount,
                   sent, batch, feeMarket, balance, drain, handed, retry>>

\* after the success message: the recipient's notification is appended (unless
\* the message or the append raised) and the payment data cleared
ConfirmFinish ==
    /\ single.pc = "told"
    /\ LoopFree
    /\ \E raises \in BOOLEAN :
          LET payment == single.payment[1]
              notify  == payment.notification # <<>> /\ ~raises
              tx_hash == single.tx_hash
          IN  /\ outbox' =
                    IF notify
                    THEN [outbox EXCEPT ![HandleOf(payment.display_name)] =
                            Append(@, payment.notification[1] @@ [tx_hash |-> tx_hash])]
                    ELSE outbox
              /\ reply' = IF raises THEN "error" ELSE "paid"
    /\ single' = IdleSingle
    /\ shown' = {}
    /\ userData' = [userData EXCEPT !.payment = NoPending]
    /\ UNCHANGED <<now, txCount, wallets, payments, cancelled, tick, invCount,
                   sent, batch, feeMarket, balance, drain, handed, retry>>

-----------------------------------------------------------------------------
(* batch_payment (/batchpay r1,r2,... amount) and batch_payment_multi      *)
(* (/batchpaymulti r1:a1,r2:a2,...).                                       *)

TwoAmount == [ok |-> TRUE, wei |-> 2]

BatchRequest(recipients, amount) == [recipients |-> recipients, amount |-> amount]

\* the /batchpay requests of the model
BatchRequests ==
    { BatchRequest(<<"@bob", RawAddress, RawAddress>>, GoodAmount),
      BatchRequest(<<"@alice", "0xbad", RawAddress>>, GoodAmount),
      BatchRequest(<<"0xbad">>, GoodAmount),
      BatchRequest(<<RawAddress>>, BadAmount) }

\* one "recipient:amount" pair; parts is len(pair.split(':'))
Pair(recipient, amount, parts) ==
    [recipient |-> recipient, amount |-> amount, parts |-> parts]

\* the /batchpaymulti requests of the model
BatchMultiRequests ==
    { <<Pair("@bob", GoodAmount, 2), Pair(RawAddress, TwoAmount, 2)>>,
      <<Pair(RawAddress, GoodAmount, 2), Pair(RawAddress, GoodAmount, 3)>>,
      <<Pair("@alice", GoodAmount, 2), Pair("0xbad", GoodAmount, 2),
        Pair(RawAddress, BadAmount, 2)>> }

\* the recipient is skipped: own handle, or neither a handle nor an address
Skipped(recipient) ==
    IF IsHandle(recipient) THEN HandleOf(recipient) = SenderName
    ELSE ~IsAddress(recipient)

\* the entry batch_payment appends for the k-th recipient string
BatchEntry(recipient, amount_wei, k) ==
    LET handle     == IsHandle(recipient)
        has_wallet == handle /\ wallets[UserOfHandle(HandleOf(recipient))] # NoWallet
        is_new_wallet == handle /\ ~has_wallet
        recipient_address ==
            IF ~handle THEN recipient
            ELSE IF has_wallet THEN wallets[UserOfHandle(HandleOf(recipient))]
            ELSE GenAddrs[k]
    IN  [address |-> recipient_address, display |-> recipient,
         amount_wei |-> amount_wei, is_new_wallet |-> is_new_wallet,
         private_key |-> IF is_new_wallet THEN KeyOf(recipient_address) ELSE <<>>]

\* processed_recipients of batch_payment, from the k-th recipient string on
RECURSIVE ProcessedFrom(_, _, _)
ProcessedFrom(recipient_list, amount_wei, k) ==
    IF k > Len(recipient_list) THEN <<>>
    ELSE IF Skipped(recipient_list[k])
         THEN ProcessedFrom(recipient_list, amount_wei, k + 1)
         ELSE <<BatchEntry(recipient_list[k], amount_wei, k)>>
                 \o ProcessedFrom(recipient_list, amount_wei, k + 1)

\* the entry batch_payment_multi appends: it keeps no private key
MultiEntry(pair, k) ==
    [f \in {"address", "display", "amount_wei", "is_new_wallet"} |->
        BatchEntry(pair.recipient, pair.amount.wei, k)[f]]

\* processed_recipients of batch_payment_multi, from the k-th pair on
RECURSIVE ProcessedMultiFrom(_, _)
ProcessedMultiFrom(recipient_pairs, k) ==
    IF k > Len(recipient_pairs) THEN <<>>
    ELSE LET pair == recipient_pairs[k] IN
         IF pair.parts # 2 \/ ~pair.amount.ok \/ Skipped(pair.recipient)
         THEN ProcessedMultiFrom(recipient_pairs, k + 1)
         ELSE <<MultiEntry(pair, k)>> \o ProcessedMultiFrom(recipient_pairs, k + 1)

\* what both handlers store for the confirmation
BatchData(from_address, processed_recipients, gas_params) ==
    [from_address     |-> from_address,
     private_key      |-> KeyOf(from_address),
     recipients       |-> processed_recipients,
     total_amount_wei |-> SumAmounts(processed_recipients),
     total_gas_wei    |-> EstimatedGasCost(gas_params) * Len(processed_recipients)]

batch_payment(recipient_list, amount_text) ==
    /\ LoopFree /\ HandlerFree
    /\ UNCHANGED <<now, txCount, wallets, payments, cancelled, tick, invCount,
                   sent, outbox, batch, feeMarket, balance, single, drain,
                   handed, retry, shown>>
    /\ IF wallets[Sender] = NoWallet
       THEN reply' = "no-wallet" /\ UNCHANGED userData
       ELSE IF ~amount_text.ok
       THEN reply' = "invalid-amount" /\ UNCHANGED userData
       ELSE
         LET processed_recipients == ProcessedFrom(recipient_list, amount_text.wei, 1)
             from_address == wallets[Sender]
             gas_params   == Quote
         IN  IF Len(processed_recipients) = 0
             THEN reply' = "no-recipients" /\ UNCHANGED userData
             ELSE IF BatchRejects(balance[from_address], processed_recipients,
                                  gas_params)
             THEN reply' = "insufficient" /\ UNCHANGED userData
             ELSE /\ userData' = [userData EXCEPT !.batch_payment =
                        <<BatchData(from_address, processed_recipients, gas_params)>>]
                  /\ reply' = "confirm"

batch_payment_multi(recipient_pairs) ==
    /\ LoopFree /\ HandlerFree
    /\ UNCHANGED <<now, txCount, wallets, payments, cancelled, tick, invCount,
                   sent, outbox, batch, feeMarket, balance, single, drain,
                   handed, retry, shown>>
    /\ IF wallets[Sender] = NoWallet
       THEN reply' = "no-wallet" /\ UNCHANGED userData
       ELSE
         LET processed_recipients == ProcessedMultiFrom(recipient_pairs, 1)
             from_address == wallets[Sender]
             gas_params   == Quote
         IN  IF Len(processed_recipients) = 0
             THEN reply' = "no-recipients" /\ UNCHANGED userData
             ELSE IF BatchMultiRejects(balance[from_address], processed_recipients,
                                       gas_params)
             THEN reply' = "insufficient" /\ UNCHANGED userData
             ELSE /\ userData' = [userData EXCEPT !.batch_payment_multi =
                        <<BatchData(from_address, processed_recipients, gas_params)>>]
                  /\ reply' = "confirm"

-----------------------------------------------------------------------------
(* process_batch_transaction: the 'Confirm Batch Payment' buttons.  The    *)
(* loop over the recipients contains no await.                             *)

\* recipient.get("private_key")
PrivateKeyOf(recipient) ==
    IF "private_key" \in DOMAIN recipient THEN recipient.private_key ELSE <<>>

\* the notification appended for a recipient handle of a batch
BatchNotification(recipient, tx_hash, t) ==
    LET notification ==
            [_id |-> t, type |-> "received_eth", amount |-> recipient.amount_wei,
             sender_username |-> SenderName, tx_hash |-> tx_hash,
             new_wallet |-> recipient.is_new_wallet]
    IN  IF recipient.is_new_wallet /\ PrivateKeyOf(recipient) # <<>>
        THEN notification @@ [wallet_address |-> recipient.address,
                              private_key |-> PrivateKeyOf(recipient)]
        ELSE notification

SuccessResult(recipient, tx_hash) ==
    [recipient |-> recipient.display, amount |-> recipient.amount_wei,
     tx_hash |-> tx_hash, status |-> "success", error |-> "",
     is_new_wallet |-> recipient.is_new_wallet,
     recipient_address |-> recipient.address]

FailedResult(recipient, error) ==
    [recipient |-> recipient.display, amount |-> recipient.amount_wei,
     tx_hash |-> NoHash, status |-> "failed", error |-> error,
     is_new_wallet |-> FALSE, recipient_address |-> ""]

\* the button is pressed: up to the "Processing batch payment" message
BatchConfirm(is_multi) ==
    /\ LoopFree /\ HandlerFree
    /\ LET key == IF is_multi THEN "batch_payment_multi" ELSE "batch_payment" IN
       IF userData[key] = NoPending
       THEN reply' = "not-found" /\ UNCHANGED batch
       ELSE IF wallets[Sender] = NoWallet
       THEN reply' = "no-wallet" /\ UNCHANGED batch
       ELSE /\ batch' = [pc |-> "await", recipients |-> userData[key][1].recipients,
                         idx |-> 1, results |-> <<>>, base |-> 0,
                         multi |-> is_multi, from |-> wallets[Sender]]
            /\ reply' = "processing"
    /\ UNCHANGED <<now, txCount, wallets, payments, cancelled, tick, invCount,
                   sent, outbox, userData, feeMarket, balance, single, drain,
                   handed, retry, shown>>

\* the message is out and the loop begins
BatchLoop ==
    /\ batch.pc = "await"
    /\ LoopFree
    /\ batch' = [batch EXCEPT !.pc = "run"]
    /\ UNCHANGED <<now, txCount, wallets, payments, cancelled, tick, invCount,
                   sent, outbox, userData, reply, feeMarket, balance, single,
                   drain, handed, retry, shown>>

\* the loop is at recipient number batch.idx
AtItem == batch.pc = "run" /\ batch.idx <= Len(batch.recipients)

\* the transaction count the first iteration of the loop read (history)
BaseNonce == IF batch.idx = 1 THEN txCount[batch.from] ELSE batch.base

\* iteration i: the transaction is submitted and its result appended; then
\* the notification of a recipient handle is appended, and if that raises the
\* except branch appends a second, failed, result
BatchItemSent ==
    /\ AtItem
    /\ Len(sent) < MaxSent
    /\ \E notify_raises \in BOOLEAN :
          LET i         == batch.idx
              recipient == batch.recipients[i]
              nonce     == txCount[batch.from] + i - 1
              tx == BuildTx(nonce, recipient.address, recipient.amount_wei, Quote)
              tx_hash == Len(sent) + 1
              handle  == IsHandle(recipient.display)
              success == SuccessResult(recipient, tx_hash)
          IN  /\ notify_raises => handle
              /\ sent' = Append(sent, [flow |-> "batch", inv |-> 0, id |-> 0,
                                       occ |-> 0, at |-> now, from |-> batch.from,
                                       item |-> i, tx |-> tx])
              /\ outbox' =
                    IF handle /\ ~notify_raises
                    THEN [outbox EXCEPT ![HandleOf(recipient.display)] =
                            Append(@, BatchNotification(recipient, tx_hash, now))]
                    ELSE outbox
              /\ batch' = [batch EXCEPT
                    !.idx = i + 1,
                    !.base = BaseNonce,
                    !.results =
                        IF notify_raises
                        THEN @ \o <<success, FailedResult(recipient, "notify")>>
                        ELSE Append(@, success)]
    /\ UNCHANGED <<now, txCount, wallets, payments, cancelled, tick, invCount,
                   userData, reply, feeMarket, balance, single, drain, handed,
                   retry, shown>>

\* a faulty BatchItemFails, which leaves the loop at the first failure; C8
\* must tell it from the loop
BatchItemFailsAborts ==
    /\ AtItem
    /\ batch' = [batch EXCEPT
          !.idx = Len(batch.recipients) + 1,
          !.base = BaseNonce,
          !.results = Append(@, FailedResult(batch.recipients[batch.idx], "submit"))]
    /\ UNCHANGED <<now, txCount, wallets, payments, cancelled, tick, invCount,
                   sent, outbox, userData, reply, feeMarket, balance, single,
                   drain, handed, retry, shown>>

\* iteration i: the nonce query, the fee quote, signing or submitting raises
BatchItemFails ==
    /\ AtItem
    /\ batch' = [batch EXCEPT
          !.idx = @ + 1,
          !.base = BaseNonce,
          !.results = Append(@, FailedResult(batch.recipients[batch.idx], "submit"))]
    /\ UNCHANGED <<now, txCount, wallets, payments, cancelled, tick, invCount,
                   sent, outbox, userData, reply, feeMarket, balance, single,
                   drain, handed, retry, shown>>

\* after the loop: the batch data is cleared and the summary shown
BatchFinish ==
    /\ batch.pc = "run"
    /\ batch.idx > Len(batch.recipients)
    /\ batch' = [batch EXCEPT !.pc = "done"]
    /\ userData' = IF batch.multi
                   THEN [userData EXCEPT !.batch_payment_multi = NoPending]
                   ELSE [userData EXCEPT !.batch_payment = NoPending]
    /\ reply' = "batch-done"
    /\ UNCHANGED <<now, txCount, wallets, payments, cancelled, tick, invCount,
                   sent, outbox, feeMarket, balance, single, drain, handed,
                   retry, shown>>

-----------------------------------------------------------------------------
(* check_pending_notifications: the drain of a recipient's outbox, run at  *)
(* the start of the recipient's commands.  It reads the list once and      *)
(* awaits one message per entry.                                           *)

\* $pull {"notifications": {"_id": notification_id}}: every entry with the id
RECURSIVE PullById(_, _)
PullById(notifications, notification_id) ==
    IF notifications = <<>> THEN <<>>
    ELSE IF Head(notifications)._id = notification_id
         THEN PullById(Tail(notifications), notification_id)
         ELSE <<Head(notifications)>>
                 \o PullById(Tail(notifications), notification_id)

remove_pending_notification(store, username, notification_id) ==
    [store EXCEPT ![username] = PullById(@, notification_id)]

\* the drain after the entry it is at: the next entry, or the return
DrainAfter ==
    IF drain.idx < Len(drain.notifications)
    THEN [drain EXCEPT !.idx = @ + 1]
    ELSE IdleDrain

\* the list is read; up to the message of the first entry
DrainStart(username) ==
    /\ LoopFree /\ HandlerFree
    /\ outbox[username] # <<>>
    /\ drain' = [pc |-> "await", username |-> username,
                 notifications |-> outbox[username], idx |-> 1]
    /\ UNCHANGED <<now, txCount, wallets, payments, cancelled, tick, invCount,
                   sent, outbox, userData, batch, reply, feeMarket, balance,
                   single, handed, retry, shown>>

\* the message of the entry went out: the entry is removed by its id (unless
\* the update raises, which is caught and logged)
DrainHandOff ==
    /\ drain.pc = "await"
    /\ LoopFree
    /\ \E remove_raises \in BOOLEAN :
          LET notification == drain.notifications[drain.idx]
              notification_id == notification._id
          IN  /\ handed' = handed \cup {notification.tx_hash}
              /\ outbox' = IF remove_raises THEN outbox
                           ELSE remove_pending_notification(
                                    outbox, drain.username, notification_id)
    /\ drain' = DrainAfter
    /\ UNCHANGED <<now, txCount, wallets, payments, cancelled, tick, invCount,
                   sent, userData, batch, reply, feeMarket, balance, single,
                   retry, shown>>

\* the message of the entry raised: "Error sending pending notification"
DrainHandOffFails ==
    /\ drain.pc = "await"
    /\ LoopFree
    /\ drain' = DrainAfter
    /\ UNCHANGED <<now, txCount, wallets, payments, cancelled, tick, invCount,
                   sent, outbox, userData, batch, reply, feeMarket, balance,
                   single, handed, retry, shown>>

-----------------------------------------------------------------------------
(* retry_telegram_action(action_func, max_retries=3).  The action is       *)
(* described by what its successive invocations do: return ("ok") or raise *)
(* the named exception.                                                    *)

max_retries == 3

Transient == {"TimedOut", "NetworkError"}

Outcomes == {"ok", "TimedOut", "NetworkError", "BadRequest"}

\* the actions of the model: what each of up to max_retries invocations does
ActionFuncs == [1..max_retries -> Outcomes]

\* the name telegram is bound in the module: no statement binds it (the
\* imports take names from the package, they do not bind the package)
TelegramBound == FALSE

\* the button handler calls retry_telegram_action(edit_action)
RetryCall(action_func) ==
    /\ retry.pc = "idle"
    /\ retry' = [pc |-> "loop", action_func |-> action_func, attempt |-> 0,
                 calls |-> 0, result |-> "none"]
    /\ UNCHANGED <<now, txCount, wallets, payments, cancelled, tick, invCount,
                   sent, outbox, userData, batch, reply, feeMarket, balance,
                   single, drain, handed, shown>>

\* one pass of the for loop: the action is awaited; its result is returned,
\* or its exception meets the except clause, whose expression
\* (telegram.error.TimedOut, telegram.error.NetworkError) is evaluated then:
\* with the name unbound that raises NameError, which leaves the function;
\* otherwise a transient error is re-raised on the last attempt and followed
\* by the sleep and the next pass before it, and any other error propagates
RetryAttempt ==
    /\ retry.pc = "loop"
    /\ LET outcome == retry.action_func[retry.calls + 1] IN
       retry' =
          IF outcome = "ok"
          THEN [retry EXCEPT !.pc = "returned", !.calls = @ + 1, !.result = "ok"]
          ELSE IF ~TelegramBound
          THEN [retry EXCEPT !.pc = "raised", !.calls = @ + 1,
                             !.result = "NameError"]
          ELSE IF outcome \notin Transient
          THEN [retry EXCEPT !.pc = "raised", !.calls = @ + 1, !.result = outcome]
          ELSE IF retry.attempt = max_retries - 1
          THEN [retry EXCEPT !.pc = "raised", !.calls = @ + 1, !.result = outcome]
          ELSE [retry EXCEPT !.attempt = @ + 1, !.calls = @ + 1]
    /\ UNCHANGED <<now, txCount, wallets, payments, cancelled, tick, invCount,
                   sent, outbox, userData, batch, reply, feeMarket, balance,
                   single, drain, handed, shown>>

\* the caller has the result, or the exception has left the handler
RetryEnd ==
    /\ retry.pc \in {"returned", "raised"}
    /\ retry' = IdleRetry
    /\ UNCHANGED <<now, txCount, wallets, payments, cancelled, tick, invCount,
                   sent, outbox, userData, batch, reply, feeMarket, balance,
                   single, drain, handed, shown>>

-----------------------------------------------------------------------------
Environment == AdvanceClock \/ Mine \/ WalletLost \/ BalanceChanges

\* /schedule with a request of the set Q
Schedule(Q) == \E q \in Q : schedule_payment(q.recipient, q.amount, q.text)

\* a cancel button of /scheduled
Cancel == \E id \in 1..MaxPayments : cancel_scheduled(id)

Requests == Schedule(ScheduleRequests) \/ Cancel

(* The scheduler: the job queue runs one invocation of the tick at a time. *)
Next == Environment \/ Requests \/ TickStep(1)

Spec == Init /\ [][Next]_vars

(* The scheduler when two invocations of the tick entry point may overlap. *)
OverlapRequests ==
    { Request(RawAddress, GoodAmount, FirstJan),
      Request(RawAddress, GoodAmount, Every1Days),
      Request(RawAddress, GoodAmount, EveryMonday) }

NextOverlap ==
    \/ Environment
    \/ Schedule(OverlapRequests) \/ Cancel
    \/ \E k \in TickIds : TickStep(k)

SpecOverlap == Init /\ [][NextOverlap]_vars

(* The immediate sends next to the scheduler.                              *)
Pay == \E q \in PayRequests : pay(q.recipient, q.amount)

ConfirmPayment == ConfirmStart \/ ConfirmSubmit \/ ConfirmFails \/ ConfirmFinish

BatchPay == \E q \in BatchRequests : batch_payment(q.recipients, q.amount)

BatchPayMulti == \E q \in BatchMultiRequests : batch_payment_multi(q)

ProcessBatch ==
    \/ \E is_multi \in BOOLEAN : BatchConfirm(is_multi)
    \/ BatchLoop \/ BatchItemSent \/ BatchItemFails \/ BatchFinish

(* The batch flow: requests, confirmation and the chain.                  *)
NextBatch == Mine \/ BalanceChanges \/ BatchPay \/ BatchPayMulti \/ ProcessBatch

SpecBatch == Init /\ [][NextBatch]_vars

(* Every flow that runs a balance pre-flight, with the single payment's    *)
(* confirmation.                                                           *)
PreflightScheduleRequests == { Request(RawAddress, GoodAmount, Every0Days) }

TickPreflight ==
    \/ TickStart(1) \/ TickInsufficient(1) \/ TickError(1) \/ TickDispatch(1)
    \/ TickResume(1) \/ TickEnd(1)

\* the batch requests with a recipient that is not skipped
ValidBatchRequests ==
    { q \in BatchRequests : q.amount.ok /\ ProcessedFrom(q.recipients, 1, 1) # <<>> }

ValidBatchMultiRequests ==
    { q \in BatchMultiRequests : ProcessedMultiFrom(q, 1) # <<>> }

NextPreflight ==
    \/ BalanceChanges
    \/ Pay \/ ConfirmPayment
    \/ \E q \in ValidBatchRequests : batch_payment(q.recipients, q.amount)
    \/ \E q \in ValidBatchMultiRequests : batch_payment_multi(q)
    \/ Schedule(PreflightScheduleRequests)
    \/ TickPreflight

SpecPreflight == Init /\ [][NextPreflight]_vars

(* The outbox: the flows that append a notification for a recipient       *)
(* handle, and the recipient's drain, with a sender who can pay.          *)
OutboxScheduleRequests == { Request("@bob", GoodAmount, FirstJan) }

OutboxBatchRequests == { BatchRequest(<<"@bob", "@bob">>, GoodAmount) }

InitOutbox == Init /\ balance = [a \in SenderAddrs |-> Rich]

Drain ==
    \/ \E username \in Handles : DrainStart(username)
    \/ DrainHandOff \/ DrainHandOffFails

NextOutbox ==
    \/ AdvanceClock
    \/ pay("@bob", GoodAmount) \/ ConfirmPayment
    \/ \E q \in OutboxBatchRequests : batch_payment(q.recipients, q.amount)
    \/ BatchConfirm(FALSE) \/ BatchLoop \/ BatchItemSent \/ BatchFinish
    \/ Schedule(OutboxScheduleRequests)
    \/ TickStart(1) \/ TickDispatch(1) \/ TickResume(1) \/ TickEnd(1)
    \/ Drain

SpecOutbox == InitOutbox /\ [][NextOutbox]_vars

(* The flows that append to the outbox when submissions may fail: those   *)
(* of SpecOutbox with the failure of a batch item and of a scheduled       *)
(* dispatch, without the drain.                                            *)
NextNotify ==
    \/ AdvanceClock
    \/ pay("@bob", GoodAmount) \/ ConfirmPayment
    \/ \E q \in OutboxBatchRequests : batch_payment(q.recipients, q.amount)
    \/ BatchConfirm(FALSE) \/ BatchLoop \/ BatchItemSent \/ BatchItemFails
    \/ BatchFinish
    \/ Schedule(OutboxScheduleRequests)
    \/ TickStart(1) \/ TickDispatch(1) \/ TickError(1) \/ TickResume(1)
    \/ TickEnd(1)

SpecNotify == InitOutbox /\ [][NextNotify]_vars

(* The scheduler of a sender who may import another wallet: both wallets  *)
(* are funded.                                                             *)
InitImport ==
    /\ now = 0
    /\ txCount = [a \in WalletAddrs |-> 0]
    /\ wallets = [u \in Users |-> IF u = Sender THEN "a1" ELSE NoWallet]
    /\ payments = <<>>
    /\ cancelled = {}
    /\ tick = [k \in TickIds |-> IdleTick]
    /\ invCount = 0
    /\ sent = <<>>
    /\ outbox = [h \in Handles |-> <<>>]
    /\ userData = [payment |-> NoPending, batch_payment |-> NoPending,
                   batch_payment_multi |-> NoPending]
    /\ batch = IdleBatch
    /\ reply = "none"
    /\ feeMarket \in FeeMarkets
    /\ balance = [a \in WalletAddrs |-> Rich]
    /\ single = IdleSingle
    /\ drain = IdleDrain
    /\ handed = {}
    /\ retry = IdleRetry
    /\ shown = {}

ImportWallet == \E private_key \in ImportKeys : import_wallet(private_key)

NextImport ==
    \/ AdvanceClock
    \/ Schedule(OverlapRequests)
    \/ ImportWallet
    \/ TickStart(1) \/ TickDispatch(1) \/ TickResume(1) \/ TickEnd(1)

SpecImport == InitImport /\ [][NextImport]_vars

(* The single payment alone: /pay requests of a funded sender and the     *)
(* presses of the confirm buttons in the chat.                             *)
NextConfirm == Pay \/ ConfirmPayment

SpecConfirm == InitOutbox /\ [][NextConfirm]_vars

(* The parser and the calculator: one /schedule request with any of the   *)
(* texts below, made at any instant of the first week and a day, and the  *)
(* tick that dispatches the record once and computes its next execution.  *)
EveryWeekday(w) == Text({w}, NoDays, <<>>)      \* "every monday" .. "every sunday"
EveryDays(n)    == Text({}, n, <<>>)            \* "every n days"
OnDate(d, m, y) == Text({}, NoDays, <<[d |-> d, m |-> m, y |-> y]>>)  \* "d-m-y"

Christmas      == OnDate(25, 12, 2025)    \* "25-12-2025"
ThirdJan       == OnDate(3, 1, 2024)      \* "3/1/2024"
LeapDay        == OnDate(29, 2, 24)       \* "29-02-24"
ThirtyFirstApr == OnDate(31, 4, 2024)     \* "31-04-2024"
ThreeDigitYear == OnDate(1, 1, 202)       \* "1-1-202"

CalcTexts ==
    { EveryWeekday(w) : w \in 0..6 }
    \cup { EveryDays(n) : n \in 0..3 }
    \cup { Christmas, ThirdJan, LeapDay, FirstJan, ThirtiethFeb, ThirtyFirstApr,
           ThreeDigitYear, Tomorrow }
    \cup { Shouted(EveryMonday), Shouted(Every1Days), Shouted(Tomorrow) }
    \cup { Text({0}, 2, <<>>),                     \* "every monday every 2 days"
           Text({2, 4}, NoDays, <<>>),             \* "every friday, every wednesday"
           Text({3}, NoDays, ThirdJan.date),       \* "every thursday from 3/1/2024"
           Text({}, 2, ThirdJan.date),             \* "3/1/2024 every 2 days"
           Shouted(Text({}, 3, Christmas.date)) }  \* "EVERY 3 DAYS 25-12-2025"

CalcRequests == { Request(RawAddress, GoodAmount, text) : text \in CalcTexts }

InitCalc ==
    /\ now \in 0..MaxRef
    /\ txCount = [a \in SenderAddrs |-> 0]
    /\ wallets = [u \in Users |-> IF u = Sender THEN "a1" ELSE NoWallet]
    /\ payments = <<>>
    /\ cancelled = {}
    /\ tick = [k \in TickIds |-> IdleTick]
    /\ invCount = 0
    /\ sent = <<>>
    /\ outbox = [h \in Handles |-> <<>>]
    /\ userData = [payment |-> NoPending, batch_payment |-> NoPending,
                   batch_payment_multi |-> NoPending]
    /\ batch = IdleBatch
    /\ reply = "none"
    /\ feeMarket \in FeeMarkets
    /\ balance = [a \in SenderAddrs |-> Rich]
    /\ single = IdleSingle
    /\ drain = IdleDrain
    /\ handed = {}
    /\ retry = IdleRetry
    /\ shown = {}

\* half a day goes by while no coroutine is at work
TimePasses ==
    /\ LoopFree
    /\ now < MaxClock
    /\ now' = now + 1
    /\ UNCHANGED <<txCount, wallets, payments, cancelled, tick, invCount,
                   sent, outbox, userData, batch, reply, feeMarket, balance,
                   single, drain, handed, retry, shown>>

NextCalc ==
    \/ TimePasses
    \/ (payments = <<>> /\ Schedule(CalcRequests))
    \/ (sent = <<>> /\ TickStart(1))
    \/ TickDispatch(1) \/ TickResume(1) \/ TickEnd(1)

SpecCalc == InitCalc /\ [][NextCalc]_vars

(* The bounded retry around the messages of the button handler.            *)
NextRetry ==
    \/ \E action_func \in ActionFuncs : RetryCall(action_func)
    \/ RetryAttempt
    \/ RetryEnd

SpecRetry == Init /\ [][NextRetry]_vars

(* The payment store: requests for small and large amounts with every     *)
(* kind of schedule, cancellations, and the passing of a day.              *)
StoreAmounts == {GoodAmount, TwoAmount, Ether(10), Ether(20)}

StoreRequests ==
    { Request(r, a, text) :
         r \in {RawAddress, "@bob"}, a \in StoreAmounts,
         text \in {EveryMonday, Every1Days, FirstJan} }

NextStore == AdvanceClock \/ Schedule(StoreRequests) \/ Cancel

SpecStore == Init /\ [][NextStore]_vars

(* Requests of a funded sender that name the sender as the recipient, by  *)
(* handle or by wallet address, next to one that names somebody else.      *)
SelfRecipients == {"@alice"} \cup SenderAddrs

SelfScheduleRequests ==
    { Request(r, GoodAmount, Every1Days) : r \in SelfRecipients \cup {RawAddress} }

SelfPayRequests ==
    { PayRequest(r, GoodAmount) : r \in SelfRecipients \cup {RawAddress} }

NextSelf ==
    \/ AdvanceClock
    \/ Schedule(SelfScheduleRequests)
    \/ \E q \in SelfPayRequests : pay(q.recipient, q.amount)
    \/ ConfirmPayment
    \/ TickStart(1) \/ TickDispatch(1) \/ TickResume(1) \/ TickEnd(1)

SpecSelf == InitOutbox /\ [][NextSelf]_vars

(* The sends of one funded sender next to each other: single payments,    *)
(* a batch and the scheduler, while the chain mines what it likes.         *)
RaceBatchRequests == { BatchRequest(<<RawAddress, RawAddress>>, GoodAmount) }

NextRace ==
    \/ Mine
    \/ pay(RawAddress, GoodAmount) \/ ConfirmPayment
    \/ \E q \in RaceBatchRequests : batch_payment(q.recipients, q.amount)
    \/ BatchConfirm(FALSE) \/ BatchLoop \/ BatchItemSent \/ BatchFinish
    \/ Schedule(PreflightScheduleRequests)
    \/ TickStart(1) \/ TickDispatch(1) \/ TickResume(1) \/ TickEnd(1)

SpecRace == InitOutbox /\ [][NextRace]_vars

(* The fee estimator: one fee market out of many, in which the sender      *)
(* makes and confirms single payments.  The fees are in units of 0.1 gwei. *)
GasBaseFees  == {NoBaseFee, 0, 1, 15, 1 * Gwei, 65 * Gwei, 66 * Gwei,
                 (67 * Gwei) + 1, 200 * Gwei}
GasTips      == {0, 5, 1 * Gwei, 2 * Gwei, 99 * Gwei, 100 * Gwei}
GasGasPrices == {0, 1, 4, 5, 11, 1 * Gwei, 90 * Gwei}

GasMarkets ==
    [base_fee : GasBaseFees, tip : GasTips, gas_price : GasGasPrices,
     primary_raises : BOOLEAN]

InitGas ==
    /\ now = 0
    /\ txCount = [a \in SenderAddrs |-> 0]
    /\ wallets = [u \in Users |-> IF u = Sender THEN "a1" ELSE NoWallet]
    /\ payments = <<>>
    /\ cancelled = {}
    /\ tick = [k \in TickIds |-> IdleTick]
    /\ invCount = 0
    /\ sent = <<>>
    /\ outbox = [h \in Handles |-> <<>>]
    /\ userData = [payment |-> NoPending, batch_payment |-> NoPending,
                   batch_payment_multi |-> NoPending]
    /\ batch = IdleBatch
    /\ reply = "none"
    /\ feeMarket \in GasMarkets
    /\ balance = [a \in SenderAddrs |-> Rich]
    /\ single = IdleSingle
    /\ drain = IdleDrain
    /\ handed = {}
    /\ retry = IdleRetry
    /\ shown = {}

NextGas == pay(RawAddress, GoodAmount) \/ ConfirmPayment

SpecGas == InitGas /\ [][NextGas]_vars

(* The balance pre-flights at and around the amounts they require: the     *)
(* balance is any of the totals a request of the model can need, or one    *)
(* unit off, and stays as it is.                                           *)
GuardFees ==
    { EstimatedGasCost(calculate_optimal_gas(BaseFeeOf(m), m.tip, m.gas_price,
                                             m.primary_raises)) : m \in FeeMarkets }

\* <<n, amounts>>: the transactions and the sum of the amounts of a request
GuardRequests == { <<1, 1>>, <<2, 3>>, <<3, 3>> }

GuardBalances ==
    { r[1] * fee + r[2] + d :
         r \in GuardRequests, fee \in GuardFees, d \in {-1, 0, 1} }

InitGuard ==
    /\ now = 0
    /\ txCount = [a \in SenderAddrs |-> 0]
    /\ wallets = [u \in Users |-> IF u = Sender THEN "a1" ELSE NoWallet]
    /\ payments = <<>>
    /\ cancelled = {}
    /\ tick = [k \in TickIds |-> IdleTick]
    /\ invCount = 0
    /\ sent = <<>>
    /\ outbox = [h \in Handles |-> <<>>]
    /\ userData = [payment |-> NoPending, batch_payment |-> NoPending,
                   batch_payment_multi |-> NoPending]
    /\ batch = IdleBatch
    /\ reply = "none"
    /\ feeMarket \in FeeMarkets
    /\ balance \in [SenderAddrs -> GuardBalances]
    /\ single = IdleSingle
    /\ drain = IdleDrain
    /\ handed = {}
    /\ retry = IdleRetry
    /\ shown = {}

NextGuard ==
    \/ Pay \/ BatchPay \/ BatchPayMulti
    \/ Schedule(PreflightScheduleRequests)
    \/ TickStart(1) \/ TickInsufficient(1) \/ TickDispatch(1)
    \/ TickResume(1) \/ TickEnd(1)

SpecGuard == InitGuard /\ [][NextGuard]_vars

-----------------------------------------------------------------------------
(* Properties of the scheduler tick.                                       *)

Scheduled(i) == sent[i].flow = "scheduled"

\* the tick k handles the record it is at without submitting a transaction
FailedDispatch(k) ==
    /\ AtRecord(k)
    /\ tick'[k].idx = tick[k].idx + 1
    /\ sent' = sent

\* C1: when the dispatch of a due record fails in the tick (wallet missing,
\* balance < amount + fee, or a network step raises), no field of the record
\* is written, so a record that was active stays active with the same
\* next_execution and is due when the store is read again.
C1_FailedDispatchLeavesRecord ==
    [][\A k \in TickIds :
          FailedDispatch(k) =>
             /\ tick'[k].last \in {"no-wallet", "insufficient", "error"}
             /\ payments' = payments
             /\ LET id == Current(k).id IN
                  payments[id].active =>
                     \E j \in DOMAIN get_all_due_scheduled_payments(payments', now') :
                        get_all_due_scheduled_payments(payments', now')[j].id = id]_vars

\* a record whose dispatch has just failed in the running tick and which is
\* still active and due
C1_Witness ==
    \E k \in TickIds :
       /\ tick[k].pc = "run"
       /\ tick[k].idx > 1
       /\ tick[k].last \in {"no-wallet", "insufficient", "error"}
       /\ IsDue(payments[tick[k].due[tick[k].idx - 1].id], now)

\* C2: once the tick has submitted the transaction of a OneTime record the
\* record is inactive (so no later tick fetches it) and no second
\* transaction is ever submitted for it.
C2_OneTimeDispatchedOnce ==
    \A i \in DOMAIN sent :
       (Scheduled(i) /\ payments[sent[i].id].schedule_type = "one-time") =>
           /\ ~payments[sent[i].id].active
           /\ \A j \in DOMAIN sent :
                 (Scheduled(j) /\ sent[j].id = sent[i].id) => j = i

\* C3: tick idempotence: when two successive invocations both submit a
\* transaction for the same record, the record became due anew in between,
\* that is, the occurrence the second one dispatched lies after the first
\* dispatch.
C3_SecondTickIssuesNothing ==
    \A i \in DOMAIN sent : \A j \in DOMAIN sent :
       (/\ Scheduled(i) /\ Scheduled(j)
        /\ sent[i].id = sent[j].id
        /\ sent[j].inv = sent[i].inv + 1) => sent[j].occ > sent[i].at

Running(inv) == \E k \in TickIds : tick[k].pc # "idle" /\ tick[k].inv = inv

C6_TickNoncesDistinct ==
    \A i \in DOMAIN sent : \A j \in DOMAIN sent :
       (/\ i # j /\ Scheduled(i) /\ Scheduled(j)
        /\ sent[i].inv = sent[j].inv
        /\ sent[i].from = sent[j].from)
           => sent[i].tx.nonce # sent[j].tx.nonce

-----------------------------------------------------------------------------
(* Properties of the batch dispatcher.                                     *)

\* C7: the transaction of the i-th recipient of a confirmed batch carries the
\* nonce base + (i - 1), where base is the sender's transaction count at the
\* start of the batch, whatever the network reports later.
C7_BatchNoncesFromBase ==
    [][\A i \in DOMAIN sent' :
          (i \notin DOMAIN sent /\ sent'[i].flow = "batch")
              => sent'[i].tx.nonce = batch'.base + (sent'[i].item - 1)]_vars

\* every failure of the batch arose while building, signing or submitting
OnlySubmitFailures ==
    \A j \in DOMAIN batch.results :
       batch.results[j].status = "failed" => batch.results[j].error = "submit"

SuccessCount == Cardinality({j \in DOMAIN batch.results :
                                batch.results[j].status = "success"})
FailedCount  == Cardinality({j \in DOMAIN batch.results :
                                batch.results[j].status = "failed"})

-----------------------------------------------------------------------------
(* Properties of the balance pre-flight.                                   *)

\* the fee per gas of a quote
FeePerGas(gas_params) ==
    IF IsLegacy(gas_params) THEN gas_params.gasPrice ELSE gas_params.maxFeePerGas

\* T: the amounts plus, for each of the n transactions, fee per gas x gas limit
Required(amounts, n) == amounts + n * (FeePerGas(Quote) * Quote.gasLimit)

\* the handler has reached its balance pre-flight and decided
Decided == reply' \in {"confirm", "insufficient"}

\* C9: every pre-flight (pay, batch_payment, batch_payment_multi, the tick)
\* accepts exactly when the balance B read is at least T = sum of the amounts
\* + number of transactions x fee per gas x gas limit; B = T is accepted.
C9_GuardAcceptsIffCovered ==
    [][/\ \A q \in PayRequests :
             (Decided /\ pay(q.recipient, q.amount)) =>
                (reply' = "confirm"
                    <=> balance[wallets[Sender]] >= Required(q.amount.wei, 1))
       /\ \A q \in BatchRequests :
             (Decided /\ batch_payment(q.recipients, q.amount)) =>
                LET r == ProcessedFrom(q.recipients, q.amount.wei, 1) IN
                (reply' = "confirm"
                    <=> balance[wallets[Sender]] >= Required(SumAmounts(r), Len(r)))
       /\ \A q \in BatchMultiRequests :
             (Decided /\ batch_payment_multi(q)) =>
                LET r == ProcessedMultiFrom(q, 1) IN
                (reply' = "confirm"
                    <=> balance[wallets[Sender]] >= Required(SumAmounts(r), Len(r)))
       /\ \A k \in TickIds :
             (/\ AtRecord(k)
              /\ tick'[k].idx = tick[k].idx + 1
              /\ tick'[k].last \in {"insufficient", "sent", "notify-failed"}) =>
                (tick'[k].last # "insufficient"
                    <=> balance[wallets[Current(k).rec.sender_id]]
                           >= Required(Current(k).rec.amount_wei, 1))]_vars

\* with a balance equal to the total of a one-transaction request of amount
\* 1, all four pre-flights have accepted: the three confirmations are stored
\* and the tick has submitted the scheduled payment
C9_Witness ==
    /\ wallets[Sender] # NoWallet
    /\ balance[wallets[Sender]] = Required(1, 1)
    /\ userData.payment # NoPending
    /\ userData.batch_payment # NoPending
    /\ userData.batch_payment_multi # NoPending
    /\ \E i \in DOMAIN sent : Scheduled(i)

\* C10: a request the pre-flight rejects for insufficient funds leaves
\* nothing behind: pay, batch_payment and batch_payment_multi store no
\* pending confirmation and submit nothing, and the tick submits nothing for
\* a record whose sender's balance does not cover amount + fee.
C10_RejectedRequestLeavesNothing ==
    [][/\ \A q \in PayRequests :
             (reply' = "insufficient" /\ pay(q.recipient, q.amount)) =>
                (userData' = userData /\ sent' = sent /\ single' = single)
       /\ \A q \in BatchRequests :
             (reply' = "insufficient" /\ batch_payment(q.recipients, q.amount)) =>
                (userData' = userData /\ sent' = sent /\ batch' = batch)
       /\ \A q \in BatchMultiRequests :
             (reply' = "insufficient" /\ batch_payment_multi(q)) =>
                (userData' = userData /\ sent' = sent /\ batch' = batch)
       /\ \A k \in TickIds :
             (/\ AtRecord(k)
              /\ tick'[k].idx = tick[k].idx + 1
              /\ wallets[Current(k).rec.sender_id] # NoWallet
              /\ balance[wallets[Current(k).rec.sender_id]]
                     < Required(Current(k).rec.amount_wei, 1)) =>
                sent' = sent]_vars

\* a /pay request has just been rejected for insufficient funds while an
\* earlier one is confirmed, and the tick has just skipped a record for
\* insufficient funds
C10_Witness ==
    /\ reply = "insufficient"
    /\ wallets[Sender] # NoWallet
    /\ balance[wallets[Sender]] = 0
    /\ \E i \in DOMAIN sent : sent[i].flow = "pay"
    /\ \E k \in TickIds : tick[k].pc = "run" /\ tick[k].last = "insufficient"

-----------------------------------------------------------------------------
(* Properties of the auto-provisioned wallets and of the outbox.           *)

\* the address belongs to a key pair generated for a recipient without wallet
Generated(address) ==
    address = PayAddress \/ \E k \in DOMAIN GenAddrs : GenAddrs[k] = address

\* the key of the address is attached to a payment record or to a pending
\* notification
KeyStored(address) ==
    \/ \E id \in Ids : payments[id].private_key = KeyOf(address)
    \/ \E h \in Handles : \E j \in DOMAIN outbox[h] :
          /\ "private_key" \in DOMAIN outbox[h][j]
          /\ outbox[h][j].private_key = KeyOf(address)

\* C11: once the handler that submitted it has finished, every transaction
\* sent to a generated address has the generated private key stored, on a
\* payment record (scheduled sends) or in a pending notification (single and
\* batch sends).
C11_GeneratedKeyPersisted ==
    \A i \in DOMAIN sent :
        (/\ Generated(sent[i].tx.to)
         /\ ~(single.pc = "told" /\ single.tx_hash = i))
        => KeyStored(sent[i].tx.to)

\* C12: an entry leaves a recipient's outbox only when that very entry has
\* been handed to the recipient: whenever an entry (told by its transaction
\* hash) is in the outbox before a step and not after it, its hand-off has
\* succeeded.
C12_RemovedOnlyAfterHandOff ==
    [][\A h \in Handles : \A i \in DOMAIN outbox[h] :
          (\A j \in DOMAIN outbox'[h] :
                outbox'[h][j].tx_hash # outbox[h][i].tx_hash)
          => outbox[h][i].tx_hash \in handed']_vars

\* C13: no two entries of one recipient's outbox have the same _id.
C13_OutboxIdsUnique ==
    \A h \in Handles : \A i, j \in DOMAIN outbox[h] :
        i # j => outbox[h][i]._id # outbox[h][j]._id

-----------------------------------------------------------------------------
(* Properties of the parser and the calculator.  A step that creates a     *)
(* record or computes a new next execution for one leaves the clock as it  *)
(* is, so now is the reference time of the computation.                    *)

\* the step creates record id or gives it another next execution
Computed(id) ==
    \/ id \notin DOMAIN payments
    \/ payments'[id].next_execution # payments[id].next_execution

\* the record the step has appended
Created == payments'[Len(payments')]

\* C14: every next execution that is computed, at creation or after a
\* dispatch, for whatever kind of schedule, is strictly later than the time
\* of the computation.
C14_NextExecutionAfterReference ==
    [][\A id \in DOMAIN payments' :
          Computed(id) => payments'[id].next_execution > now]_vars

\* C15: every next execution computed for a weekly record is strictly later
\* than the reference time, and the calculator applied to that result gives
\* the instant exactly seven days after it.
C15_WeeklySevenDaysApart ==
    [][\A id \in DOMAIN payments' :
          (payments'[id].schedule_type = "weekly" /\ Computed(id))
          => LET next_execution == payments'[id].next_execution
                 schedule_value == payments'[id].schedule_value
             IN  /\ next_execution > now
                 /\ calculate_next_execution("weekly", schedule_value,
                                             next_execution)
                       = next_execution + 7 * HalfDaysPerDay]_vars

\* a weekly record has been dispatched and rescheduled
C15_Witness ==
    \E i \in DOMAIN sent :
        /\ sent[i].flow = "scheduled"
        /\ payments[sent[i].id].schedule_type = "weekly"
        /\ payments[sent[i].id].next_execution > sent[i].occ

\* C16: for a periodic record of N > 0 days, the next execution computed at
\* creation is the creation time + N days, and every next execution computed
\* after a dispatch is the previous one + N days.
C16_PeriodicNDaysApart ==
    [][\A id \in DOMAIN payments' :
          (/\ payments'[id].schedule_type = "periodic"
           /\ payments'[id].schedule_value.days > 0
           /\ Computed(id))
          => LET days == payments'[id].schedule_value.days IN
             IF id \notin DOMAIN payments
             THEN payments'[id].next_execution = now + days * HalfDaysPerDay
             ELSE payments'[id].next_execution
                     = payments[id].next_execution + days * HalfDaysPerDay]_vars

\* the weekday of an instant as the user names it: 0 = monday .. 6 = sunday
\* (instant 0 is a Monday)
NamedDay(t) == (t \div HalfDaysPerDay) % 7

\* C17: "every <weekday>" asked at any reference time gives the earliest noon
\* of the named weekday strictly after the reference time, at most 7 days
\* after it, stored with the cron day of week 1..6, 0 for monday..sunday.
C17_WeeklyEarliestNamedDay ==
    [][\A w \in 0..6 :
          (/\ reply' = "scheduled"
           /\ schedule_payment(RawAddress, GoodAmount, EveryWeekday(w)))
          => LET next_execution == Created.next_execution IN
             /\ Created.schedule_type = "weekly"
             /\ Created.schedule_value.cron = (IF w = 6 THEN 0 ELSE w + 1)
             /\ next_execution > now
             /\ next_execution <= now + 7 * HalfDaysPerDay
             /\ next_execution % HalfDaysPerDay = Noon
             /\ NamedDay(next_execution) = w
             /\ \A t \in (now + 1)..(next_execution - 1) :
                   ~(t % HalfDaysPerDay = Noon /\ NamedDay(t) = w)]_vars

\* "every monday" asked on Wednesday 3 January 2024 is due on Monday 8
\* January at noon
C17_Witness ==
    /\ NamedDay(now) = 2
    /\ reply = "scheduled"
    /\ Len(payments) = 1
    /\ payments[1].schedule_type = "weekly"
    /\ payments[1].schedule_value.cron = 1
    /\ payments[1].next_execution = 7 * HalfDaysPerDay + Noon

YearDigits(y) == IF y < 100 THEN 2 ELSE IF y < 1000 THEN 3 ELSE 4

\* C19: a text with only a date is stored as one-time at noon of that date
\* when the year has 2 or 4 digits (2 digits: in the current century) and the
\* date exists; otherwise it is refused and nothing is stored.
C19_DateFormAccepted ==
    [][\A q \in CalcRequests :
          (/\ q.text.weekdays = {} /\ q.text.days = NoDays /\ q.text.date # <<>>
           /\ reply' \in {"scheduled", "invalid-schedule"}
           /\ schedule_payment(q.recipient, q.amount, q.text))
          => LET date == q.text.date[1]
                 year == IF YearDigits(date.y) = 2
                         THEN (YearOf(now) \div 100) * 100 + date.y
                         ELSE date.y
             IN  IF YearDigits(date.y) \in {2, 4} /\ ValidDate(year, date.m, date.d)
                 THEN /\ reply' = "scheduled"
                      /\ Created.schedule_type = "one-time"
                      /\ Created.next_execution = NoonOf(year, date.m, date.d)
                 ELSE reply' = "invalid-schedule" /\ payments' = payments]_vars

-----------------------------------------------------------------------------
(* Properties of the due set of a tick.                                    *)

\* invocation k fetches its due set in this step
Fetches(k) == tick[k].pc = "idle" /\ tick'[k].pc = "run"

\* the transaction the step has submitted for a scheduled payment
Submitted == sent'[Len(sent')]

\* the transaction of invocation inv for record id, among those sent so far
DispatchOf(inv, id) ==
    CHOOSE i \in DOMAIN sent :
        sent[i].flow = "scheduled" /\ sent[i].inv = inv /\ sent[i].id = id

\* the outcome of the record the loop handled before the current one is in
\* the store: a one-time record is inactive, any other has the next execution
\* computed when its transaction went out
PreviousWritten(k) ==
    LET prev == tick[k].due[tick[k].idx - 1]
        at   == sent[DispatchOf(tick[k].inv, prev.id)].at
    IN  IF prev.rec.schedule_type = "one-time"
        THEN ~payments[prev.id].active
        ELSE IF prev.rec.schedule_type = "weekly"
        THEN /\ payments[prev.id].next_execution > at
             /\ payments[prev.id].next_execution <= at + 7 * HalfDaysPerDay
             /\ payments[prev.id].next_execution % HalfDaysPerDay = Noon
             /\ CronDow(payments[prev.id].next_execution)
                   = prev.rec.schedule_value.cron
        ELSE payments[prev.id].next_execution
                = at + prev.rec.schedule_value.days * HalfDaysPerDay

-----------------------------------------------------------------------------
(* Properties of the records over their lifetime.                          *)

\* the record recurs with a period of at least a day
Recurring(rec) ==
    \/ rec.schedule_type = "weekly"
    \/ rec.schedule_type = "periodic" /\ rec.schedule_value.days >= 1

\* the step submits a transaction of the tick for record id
Dispatches(id) ==
    /\ Len(sent') > Len(sent)
    /\ Submitted.flow = "scheduled"
    /\ Submitted.id = id

\* C21: a recurring record (weekly, or every N >= 1 days) that is overdue
\* stays due until a tick dispatches it or it is cancelled; the tick that
\* dispatches it submits one transaction for it and leaves it with a next
\* execution strictly later than the time of the tick, so that no missed
\* occurrence is dispatched afterwards.
C21_NoCatchUpBurst ==
    [][\A id \in Ids :
          (Recurring(payments[id]) /\ IsDue(payments[id], now)) =>
             IF Dispatches(id)
             THEN /\ Len(sent') = Len(sent) + 1
                  /\ \A i \in DOMAIN sent :
                        ~(/\ sent[i].flow = "scheduled"
                          /\ sent[i].inv = Submitted.inv
                          /\ sent[i].id = id)
                  /\ payments'[id].next_execution > now
             ELSE id \in cancelled' \/ IsDue(payments'[id], now')]_vars

\* the fields of a record no operation writes after its creation (the amount
\* is kept in amount_wei)
FixedFields ==
    {"sender_id", "sender_address", "recipient_address", "recipient_display",
     "amount_wei", "schedule_type", "schedule_value", "is_new_wallet",
     "private_key"}

\* C22: every step leaves the owner, the addresses, the amount and the
\* schedule kind and parameters of every stored record as they are; it
\* changes next_execution only when the tick has submitted a transaction for
\* a weekly or periodic record, and active only when the tick has submitted
\* one for a one-time record or the record is cancelled.
C22_OnlyNextExecutionAndActiveWritten ==
    [][\A id \in Ids :
          /\ id \in DOMAIN payments'
          /\ \A f \in FixedFields : payments'[id][f] = payments[id][f]
          /\ payments'[id].next_execution # payments[id].next_execution
                => /\ Dispatches(id)
                   /\ payments[id].schedule_type \in {"weekly", "periodic"}
                   /\ payments'[id].active = payments[id].active
          /\ payments'[id].active # payments[id].active
                => /\ ~payments'[id].active
                   /\ payments'[id].next_execution = payments[id].next_execution
                   /\ \/ Dispatches(id) /\ payments[id].schedule_type = "one-time"
                      \/ reply' = "cancelled" /\ id \in cancelled']_vars

\* one record has been cancelled and another dispatched and rescheduled
C22_Witness ==
    /\ \E id \in cancelled : ~payments[id].active
    /\ \E i \in DOMAIN sent :
          /\ sent[i].flow = "scheduled"
          /\ payments[sent[i].id].active
          /\ payments[sent[i].id].next_execution > sent[i].occ

\* C23: no step removes a record from the store: the stored ids only grow,
\* whatever the ticks, cancellations and requests do, and a record that has
\* been cancelled is still stored, with active = false.
C23_RecordsNeverRemoved ==
    [][/\ \A id \in DOMAIN payments : id \in DOMAIN payments'
       /\ Len(payments') >= Len(payments)
       /\ \A id \in cancelled' :
             id \in DOMAIN payments' /\ ~payments'[id].active]_vars

\* a cancelled record is still stored after a later request has added a
\* record and a tick has dispatched it
C23_Witness ==
    \E id \in cancelled :
        /\ id \in Ids
        /\ ~payments[id].active
        /\ \E i \in DOMAIN sent :
              sent[i].flow = "scheduled" /\ sent[i].id > id

-----------------------------------------------------------------------------
(* Properties of the fee estimator.                                        *)

\* C24: when the dynamic-fee primitives answer, the quote has
\* maxPriorityFeePerGas = suggested priority fee + 1 gwei and maxFeePerGas =
\* min(floor(1.5 x base fee + that priority fee), 100 gwei); the quote is the
\* legacy one, gasPrice = floor(gas price x 1.2), exactly when they raise;
\* the gas limit is 21000 in both shapes, and a submitted transaction
\* carries the fields of the quote.
C24_QuoteAsSpecified ==
    /\ Quote.gasLimit = 21000
    /\ IsLegacy(Quote) <=> feeMarket.primary_raises
    /\ feeMarket.primary_raises =>
          /\ DOMAIN Quote = {"gasPrice", "gasLimit"}
          /\ 5 * Quote.gasPrice <= 6 * feeMarket.gas_price
          /\ 5 * (Quote.gasPrice + 1) > 6 * feeMarket.gas_price
    /\ (~feeMarket.primary_raises /\ feeMarket.base_fee # NoBaseFee) =>
          LET priority == feeMarket.tip + Gwei
              floored  == CHOOSE n \in 0..(500 * Gwei) :
                              /\ 2 * n <= 3 * feeMarket.base_fee + 2 * priority
                              /\ 2 * (n + 1) > 3 * feeMarket.base_fee + 2 * priority
          IN  /\ DOMAIN Quote = {"maxFeePerGas", "maxPriorityFeePerGas", "gasLimit"}
              /\ Quote.maxPriorityFeePerGas = priority
              /\ Quote.maxFeePerGas
                    = (IF floored <= 100 * Gwei THEN floored ELSE 100 * Gwei)
    /\ \A i \in DOMAIN sent :
          /\ sent[i].tx.gas = Quote.gasLimit
          /\ IF IsLegacy(Quote)
             THEN sent[i].tx.gasPrice = Quote.gasPrice
             ELSE /\ sent[i].tx.maxFeePerGas = Quote.maxFeePerGas
                  /\ sent[i].tx.maxPriorityFeePerGas = Quote.maxPriorityFeePerGas

\* a payment has been submitted in a market whose 1.5 x base fee + priority
\* fee, 100.65 gwei + 2 gwei, is not whole and exceeds the cap
C24_Witness ==
    /\ ~feeMarket.primary_raises
    /\ feeMarket.base_fee = (67 * Gwei) + 1
    /\ feeMarket.tip = 1 * Gwei
    /\ \E i \in DOMAIN sent : sent[i].tx.maxFeePerGas = 100 * Gwei

-----------------------------------------------------------------------------
(* Properties of the sends of one sender.                                  *)

\* C25: nothing serializes the sends of one sender: every send numbers its
\* transaction by the count the network reports when it is built (a batch
\* adds the position in the batch), whatever transactions of the sender are
\* in flight, so two sends that read the same count carry the same nonce.
C25_SendsReadTheNetworkCount ==
    [][Len(sent') > Len(sent) =>
          Submitted.tx.nonce =
             IF Submitted.flow = "batch"
             THEN txCount[Submitted.from] + Submitted.item - 1
             ELSE txCount[Submitted.from]]_vars

\* a single payment and a scheduled payment of the same sender have been
\* submitted with the same nonce, which is the count the network still
\* reports
C25_Witness ==
    \E i, j \in DOMAIN sent :
        /\ sent[i].flow = "pay" /\ sent[j].flow = "scheduled"
        /\ sent[i].from = sent[j].from
        /\ sent[i].tx.nonce = sent[j].tx.nonce
        /\ txCount[sent[i].from] = sent[i].tx.nonce

-----------------------------------------------------------------------------
(* Properties of the requests that are refused.                            *)

\* the recipient string names the sender: their handle or their wallet address
NamesSender(recipient) ==
    \/ IsHandle(recipient) /\ HandleOf(recipient) = SenderName
    \/ recipient = wallets[Sender]

\* C26: a /schedule or /pay request of a sender with a wallet that names the
\* sender as the recipient, by handle or by wallet address, is rejected at
\* once: it stores no record and no pending confirmation and submits nothing.
C26_SelfPaymentRejected ==
    [][/\ \A q \in SelfScheduleRequests :
             (/\ NamesSender(q.recipient)
              /\ schedule_payment(q.recipient, q.amount, q.text))
             => /\ reply' = "self-payment"
                /\ payments' = payments /\ userData' = userData /\ sent' = sent
       /\ \A q \in SelfPayRequests :
             (NamesSender(q.recipient) /\ pay(q.recipient, q.amount))
             => /\ reply' = "self-payment"
                /\ payments' = payments /\ userData' = userData /\ sent' = sent]_vars

\* the requests of the model whose amount is no number ("ten") or whose
\* schedule text is none of the three forms ("tomorrow") or names a day that
\* does not exist ("30-02-2024")
Unparseable ==
    { q \in ScheduleRequests :
         ~q.amount.ok \/ q.text = Tomorrow \/ q.text = ThirtiethFeb }

\* C27: a /schedule request with an unparseable amount or a schedule text the
\* parser rejects is refused at once and leaves the payment store and the
\* wallet store as they are: no record is created and no wallet is
\* provisioned for the recipient.
C27_InvalidRequestChangesNothing ==
    [][\A q \in Unparseable :
          schedule_payment(q.recipient, q.amount, q.text)
          => /\ reply' \in {"no-wallet", "invalid-amount", "invalid-schedule"}
             /\ wallets[Sender] # NoWallet =>
                   reply' = (IF q.amount.ok THEN "invalid-schedule"
                             ELSE "invalid-amount")
             /\ payments' = payments
             /\ wallets' = wallets
             /\ sent' = sent]_vars

\* a request has just been refused for its schedule text, after an earlier
\* one was stored; the recipient named by handle still has no wallet
C27_Witness ==
    /\ reply = "invalid-schedule"
    /\ Len(payments) = 1
    /\ wallets[UserOfHandle("bob")] = NoWallet

-----------------------------------------------------------------------------
(* Properties of the payment store.                                        *)

\* the owner's records as read back after the step
ReadBack == get_scheduled_payments(payments', Sender)

\* C28: when schedule_payment accepts a request (wallet, amount, schedule
\* text and recipient are valid), whatever the amount, the owner's records
\* read back from the store end with a record that has the amount and the
\* schedule kind and parameters of the request and is active, and the
\* records stored before read back as they were.
C28_StoredRecordReadsBackEqual ==
    [][\A q \in StoreRequests :
          (/\ reply' \in {"scheduled", "save-failed"}
           /\ schedule_payment(q.recipient, q.amount, q.text))
          => LET parsed == parse_schedule_string(q.text, now) IN
             /\ Len(ReadBack) = Len(get_scheduled_payments(payments, Sender)) + 1
             /\ ReadBack[Len(ReadBack)].amount_wei = q.amount.wei
             /\ ReadBack[Len(ReadBack)].schedule_type = parsed.type
             /\ ReadBack[Len(ReadBack)].schedule_value = StoredValue(parsed)
             /\ ReadBack[Len(ReadBack)].active
             /\ \A i \in DOMAIN payments : ReadBack[i] = payments[i]]_vars

-----------------------------------------------------------------------------
(* Properties of the bounded retry.                                        *)

\* the invocation at which the action first returns or raises an error that
\* is not transient, max_retries if there is none
Decisive(action_func) ==
    IF \E k \in 1..max_retries : action_func[k] \notin Transient
    THEN CHOOSE k \in 1..max_retries :
            /\ action_func[k] \notin Transient
            /\ \A j \in 1..(k - 1) : action_func[j] \in Transient
    ELSE max_retries

\* C29: retry_telegram_action invokes the action at most max_retries = 3
\* times; it goes on to the next invocation exactly after a transient
\* failure (timeout or network error) that is not the last attempt; it
\* returns the result of the first invocation that succeeds, and raises the
\* error of the invocation that failed for good: a non-transient error at
\* once, a transient one after the last attempt.
C29_BoundedRetry ==
    /\ retry.calls <= max_retries
    /\ retry.pc \in {"returned", "raised"} =>
          LET k == Decisive(retry.action_func) IN
          /\ retry.calls = k
          /\ retry.action_func[k] = "ok" =>
                retry.pc = "returned" /\ retry.result = "ok"
          /\ retry.action_func[k] # "ok" =>
                retry.pc = "raised" /\ retry.result = retry.action_func[k]

-----------------------------------------------------------------------------
(* Properties of the drain of an outbox.                                   *)

\* the entry the drain is at
AtEntry == drain.notifications[drain.idx]

\* the step hands the entry the drain is at to the recipient
HandsOff == drain.pc = "await" /\ drain' # drain /\ AtEntry.tx_hash \in handed'

\* C30: the drain goes through the entries its recipient's outbox held when
\* it started, in the order in which they were appended; each entry whose
\* message goes out is removed from the outbox by that step, so that it is
\* not in the outbox afterwards, and no entry is handed to the recipient a
\* second time by a later drain.
C30_DrainDeliversOnceAndRemoves ==
    [][/\ \A username \in Handles :
             (drain.pc = "idle" /\ drain'.pc = "await"
                 /\ drain'.username = username)
             => drain'.notifications = outbox[username] /\ drain'.idx = 1
       /\ HandsOff =>
             /\ AtEntry.tx_hash \notin handed
             /\ \A i \in DOMAIN outbox'[drain.username] :
                    outbox'[drain.username][i].tx_hash # AtEntry.tx_hash
             /\ (drain'.pc = "await" =>
                    /\ drain'.idx = drain.idx + 1
                    /\ drain'.notifications = drain.notifications)]_vars

-----------------------------------------------------------------------------
(* Properties of the transactions the flows build.  The fee market of a    *)
(* behaviour stays as it is, so Quote is the quote every flow obtained.    *)

TransferFields == {"nonce", "to", "value", "gas", "chainId"}

\* C31: every transaction submitted by the single payment, the batch or the
\* tick carries chainId 1 and gas 21000, and the fee fields of the quote
\* obtained for it: gasPrice alone for a legacy quote, maxFeePerGas and
\* maxPriorityFeePerGas with type 2 for a dynamic quote, never a mix.
C31_TransactionMatchesQuote ==
    \A i \in DOMAIN sent :
        LET tx == sent[i].tx IN
        /\ tx.chainId = 1
        /\ tx.gas = 21000
        /\ IF "gasPrice" \in DOMAIN Quote
           THEN /\ DOMAIN tx = TransferFields \cup {"gasPrice"}
                /\ tx.gasPrice = Quote.gasPrice
           ELSE /\ DOMAIN tx = TransferFields
                       \cup {"maxFeePerGas", "maxPriorityFeePerGas", "type"}
                /\ tx.maxFeePerGas = Quote.maxFeePerGas
                /\ tx.maxPriorityFeePerGas = Quote.maxPriorityFeePerGas
                /\ tx.type = 2

\* a dynamic quote, under which the tick and another flow have submitted
C31_Witness ==
    /\ "maxFeePerGas" \in DOMAIN Quote
    /\ \E i, j \in DOMAIN sent :
          sent[i].flow = "scheduled" /\ sent[j].flow \in {"pay", "batch"}

-----------------------------------------------------------------------------
(* Properties of the tick's loop over its due set.                         *)

\* C32: a record of the due set that fails (no wallet, balance too small, or
\* an exception before or after the submission) does not end the tick: the
\* invocation keeps its due set, goes on with the very next record, and
\* returns only when its loop has been at every record of the set.
C32_FailureDoesNotStopTick ==
    [][\A k \in TickIds :
          tick[k].pc # "idle" =>
             /\ tick'[k].pc = "idle" => tick[k].idx > Len(tick[k].due)
             /\ tick'[k].pc # "idle" =>
                   /\ tick'[k].due = tick[k].due
                   /\ tick'[k].inv = tick[k].inv
                   /\ tick'[k].idx \in {tick[k].idx, tick[k].idx + 1}
             /\ tick'[k].last \in {"no-wallet", "insufficient", "error",
                                   "notify-failed"}
                   => tick'[k].pc = "run"]_vars

\* an invocation with two due records has failed on the first and submitted
\* the transaction of the second
C32_Witness ==
    \E k \in TickIds :
       /\ tick[k].pc # "idle"
       /\ Len(tick[k].due) = 2
       /\ tick[k].idx = 3
       /\ tick[k].last = "sent"
       /\ \A i \in DOMAIN sent :
             ~(sent[i].flow = "scheduled" /\ sent[i].inv = tick[k].inv
                 /\ sent[i].id = tick[k].due[1].id)

\* C33: the step of the tick that submits the transaction of a record also
\* advances the record, whatever happens to the recipient's notification: a
\* one-time record is inactive after it, and any other record has a next
\* execution later than the time of the tick.
C33_SubmittedRecordAdvanced ==
    [][(Len(sent') > Len(sent) /\ Submitted.flow = "scheduled") =>
          LET id == Submitted.id IN
          IF payments[id].schedule_type = "one-time"
          THEN ~payments'[id].active
          ELSE payments'[id].next_execution > now]_vars

-----------------------------------------------------------------------------
(* Properties of the active flag.                                          *)

\* the step writes nothing but the next execution of record id
NextExecutionOnly(id) ==
    payments'[id] = [payments[id] EXCEPT
                        !.next_execution = payments'[id].next_execution]

\* C34: a record is active when it is created; its flag only ever goes from
\* true to false, by the dispatch of a one-time record or by the cancel
\* button; an inactive record never becomes active again, and when the tick
\* reschedules a record that was cancelled meanwhile it writes the next
\* execution only.
C34_ActiveMonotone ==
    [][/\ \A id \in DOMAIN payments' \ DOMAIN payments : payments'[id].active
       /\ \A id \in Ids :
             /\ id \in DOMAIN payments'
             /\ ~payments[id].active =>
                   /\ ~payments'[id].active
                   /\ NextExecutionOnly(id)
             /\ (payments[id].active /\ ~payments'[id].active) =>
                   \/ id \in cancelled' \ cancelled
                   \/ /\ payments[id].schedule_type = "one-time"
                      /\ Len(sent') > Len(sent)
                      /\ Submitted.flow = "scheduled" /\ Submitted.id = id]_vars

\* the tick has just rescheduled a recurring record of its due set that was
\* cancelled after the set was fetched, and the record is still inactive
C34_Witness ==
    \E k \in TickIds :
       /\ tick[k].pc = "run" /\ tick[k].idx = 3 /\ tick[k].last = "sent"
       /\ LET d == tick[k].due[2] IN
            /\ d.rec.active
            /\ d.rec.schedule_type # "one-time"
            /\ d.id \in cancelled
            /\ ~payments[d.id].active
            /\ payments[d.id].next_execution # d.rec.next_execution

-----------------------------------------------------------------------------
(* Properties of what the flows append to the outbox.                      *)

\* the entries of the outbox of handle h after the step that were not there
\* before it
Appended(h) ==
    {outbox'[h][i] : i \in (DOMAIN outbox'[h]) \ (DOMAIN outbox[h])}

\* the step is the failure of a submission: of the single payment, of the
\* item the batch is at, or of the record the tick is at
SubmissionFails ==
    \/ single.pc = "await" /\ single'.pc = "idle"
    \/ AtItem /\ batch'.idx = batch.idx + 1 /\ sent' = sent
    \/ \E k \in TickIds : FailedDispatch(k)

\* C35: an entry is appended to an outbox only with the hash of a
\* transaction that has been submitted, by the flow the entry comes from,
\* and a step in which a submission fails appends nothing.
C35_NotifiedOnlyAfterSubmission ==
    [][/\ \A h \in Handles : \A e \in Appended(h) :
             /\ e.tx_hash \in DOMAIN sent'
             /\ IF e.sender_username = "Scheduled Payment"
                THEN sent'[e.tx_hash].flow = "scheduled"
                ELSE sent'[e.tx_hash].flow \in {"pay", "batch"}
       /\ SubmissionFails => outbox' = outbox]_vars

\* the recipient's outbox holds the entry of a scheduled dispatch and the
\* entry of a batch item, and another item of that batch has failed
C35_Witness ==
    /\ \E i, j \in DOMAIN outbox["bob"] :
          /\ outbox["bob"][i].sender_username = "Scheduled Payment"
          /\ outbox["bob"][j].sender_username = SenderName
    /\ \E r \in DOMAIN batch.results : batch.results[r].status = "failed"

\* C36: every entry of an outbox that is flagged new_wallet carries the
\* address of the wallet that was generated for the recipient and its
\* private key, whichever flow appended it.
C36_NewWalletEntryCarriesKey ==
    \A h \in Handles : \A i \in DOMAIN outbox[h] :
        LET e == outbox[h][i] IN
        e.new_wallet =>
           /\ "wallet_address" \in DOMAIN e
           /\ "private_key" \in DOMAIN e
           /\ e.private_key = KeyOf(e.wallet_address)

-----------------------------------------------------------------------------
(* Properties of the sender of a scheduled transaction.                    *)

\* C37: the transaction the tick submits for a record is sent from the
\* sender address stored in the record when it was created, whatever wallet
\* its owner holds at the time of the dispatch.
C37_SentFromStoredAddress ==
    [][(Len(sent') > Len(sent) /\ Submitted.flow = "scheduled") =>
          Submitted.from = payments[Submitted.id].sender_address]_vars

-----------------------------------------------------------------------------
(* Properties of the confirmation of a single payment.                     *)

\* the step is the press of a confirm button that finds payment data
Pressed == single.pc = "idle" /\ single'.pc = "await"

\* C38: whichever confirmation message's button is pressed, among those
\* shown since the payment data was last empty, the payment confirm_payment
\* works on is the payment that message offered, and the transaction it
\* submits has that payment's recipient and amount, also when another /pay
\* request came between the message and the press.
C38_ConfirmSendsWhatWasShown ==
    [][/\ Pressed =>
             \A pressed \in shown :
                /\ single'.payment[1].to_address = pressed.to_address
                /\ single'.payment[1].amount_wei = pressed.amount_wei
       /\ (Len(sent') > Len(sent) /\ Submitted.flow = "pay") =>
             /\ Submitted.tx.to = single.payment[1].to_address
             /\ Submitted.tx.value = single.payment[1].amount_wei]_vars

-----------------------------------------------------------------------------
(* Properties of the fee quote.                                            *)

\* C40: in every dynamic quote of calculate_optimal_gas the priority fee is
\* at most the maximum fee, whatever the base fee and the suggested tip,
\* also when the maximum fee is the 100 gwei ceiling.
C40_PriorityFeeWithinMaxFee ==
    "maxFeePerGas" \in DOMAIN Quote
        => Quote.maxPriorityFeePerGas <= Quote.maxFeePerGas

====
